---- MODULE Spec2Model ----
(***************************************************************************)
(* Verification model of the Solana arbitrage bot.                         *)
(*                                                                         *)
(*  Spec    : ArbitrageDetector (registry + admission + execution slots)   *)
(*  SpecTx  : ArbitrageExecutor.executeArbitrage -> SwapExecutor.executeSwap *)
(*            -> TransactionExecutor.executeTransaction, one execution     *)
(*                                                                         *)
(* Time is counted in ticks of 1000 ms, so the source's 2000 ms cooldown   *)
(* is 2 and the 1000 ms simulated execution delay is 1.                    *)
(***************************************************************************)
EXTENDS Integers, Sequences, FiniteSets, TLC

(***************************************************************************)
(* Bounds of the model                                                     *)
(***************************************************************************)
MaxTime == 4          \* last clock tick explored
MaxObjs == 3          \* opportunity objects ever created by the detector
MaxConc == 2          \* largest configured maxConcurrentTrades
MaxVenues == 2        \* most venues quoted for one pair in a snapshot
MaxCallTime == 5      \* last clock reading of a repeated detection call (units of 10000 ms)
MaxCalls == 2         \* calls of findArbitrageOpportunities on one snapshot
MaxWait == 4          \* longest confirmation wait explored (units of 10000 ms)
MaxCycles == 3        \* collectData calls made by one collector
MaxKeyChars == 4      \* longest string over the bs58 alphabet handed to parseSecretKey
MaxConnects == 2      \* connect() calls that return, per WalletConnection

(***************************************************************************)
(* Program constants                                                       *)
(***************************************************************************)
DefaultCooldownMs == 2        \* cooldownMs default, 2000 ms
ExecutionDelayMs == 1         \* setTimeout(resolve, 1000) of the simulated execution
OpportunityMaxAge == 1        \* retention window of cleanupOldOpportunities (scaled)
DefaultMinProfitThreshold == 50   \* 0.5 %, in hundredths of a percent
DefaultMaxRetries == 3        \* TransactionExecutorConfig.maxRetries default
DayLength == 3                \* one UTC day, the period of the daily reset (scaled)
DefaultTimeoutMs == 3         \* TransactionExecutorConfig.timeoutMs default, 30000 ms
MaxQuoteAge == 3              \* freshness window of a quote, 30000 ms (units of 10000 ms)
GasCostCents == 15            \* gasCostSol * solPriceUsd = 0.001 * 150 USD, in cents
TradeSize == 2000000          \* opportunity.tradeSize, two tokens
KeyLength == 2                \* bytes of a secret key, 64 (scaled)

DexNames == {"Serum", "Raydium"}
PairNames == {"SOL/USDC"}
ProfitChoices == {20, 100}    \* 0.2 % and 1.0 %
CooldownChoices == {1, DefaultCooldownMs}
StepDelays == {0, 1}          \* ticks that may pass between two loop iterations of a handler

VARIABLES
  now,                   \* the wall clock read by Date.now()
  isRunning,             \* ArbitrageDetector.isRunning
  config,                \* ArbitrageDetector.config (the fields the gates read)
  objs,                  \* heap of ExecutableArbitrageOpportunity objects, in creation order
  detectedOpportunities, \* the Map id -> object, as the set of object indices it holds
  lastExecutionTime,     \* ArbitrageDetector.lastExecutionTime
  activeExecutions,      \* ArbitrageDetector.activeExecutions
  running,               \* executeOpportunity calls suspended at their await
  started,               \* history: number of executeOpportunity calls entered
  finished,              \* history: number of executeOpportunity calls that left their finally
  redelivered,           \* history: the last handleOpportunities call skipped a known id
  strategy               \* the ArbitrageStrategy registered as a listener, if any

detVars == <<now, isRunning, config, objs, detectedOpportunities, lastExecutionTime,
             activeExecutions, running, started, finished, redelivered, strategy>>

VARIABLES
  txConfig,      \* TransactionExecutor.config
  params,        \* ArbitrageTransactionParams of the executeArbitrage call
  opportunity,   \* params.opportunity, the object the caller handed in
  apc,           \* position of executeArbitrage: idle, leg1, leg2, done
  stage,         \* the await executeTransaction is suspended at
  retries,       \* the local variable retries of executeTransaction
  attempts,      \* history: loop iterations of executeTransaction, per leg
  submissions,   \* history: signAndSendTransaction calls, per leg
  confirmed,     \* history: a confirmTransaction of the leg returned without error
  waits,         \* history: the setTimeout delays of the retry loop, per leg
  waited,        \* time spent so far in the current confirmation wait (units of 10000 ms)
  legParams,     \* SwapInstructionParams of the executeSwap call in progress
  inputAmount,   \* the local variable inputAmount of executeArbitrage
  sourceSwap,    \* sourceSwapResult
  targetSwap,    \* targetSwapResult
  result         \* the ArbitrageTransactionResult returned

txVars == <<txConfig, params, opportunity, apc, stage, retries, attempts, submissions,
            confirmed, waits, waited, legParams, inputAmount, sourceSwap, targetSwap,
            result>>

VARIABLES
  analyzer,      \* MarketAnalyzer fields read by findArbitrageOpportunities
  marketData,    \* the Map pair -> PriceData[] handed to the call, in entry order
  callTime,      \* Date.now() during the call
  detected       \* the array the call returned, once it has returned

anVars == <<analyzer, marketData, callTime, detected>>

VARIABLES
  dexes,           \* the venue names the collector was constructed with
  providers,       \* MarketDataCollector.providers, each with the result of its initialize()
  isInitialized,   \* MarketDataCollector.isInitialized
  initResult,      \* what initialize() returned, once it has returned
  pollingInterval, \* this.pollingInterval holds a timer handle
  activeTimers,    \* interval timers set and not cleared
  lastStart,       \* history: the branch the last start() call returned from
  priceData,       \* MarketDataCollector.priceData: pair -> PriceData[], <<>> for no entry
  cycles,          \* collectData calls suspended at an await, by call number
  nextCycle,       \* collectData calls made so far
  published,       \* history: the snapshots handed to the subscribers
  ended            \* history: the collectData calls that have returned

colVars == <<dexes, providers, isInitialized, initResult, pollingInterval, activeTimers,
             lastStart, priceData, cycles, nextCycle, published, ended>>

VARIABLES
  secretKeyInput,  \* the argument of parseSecretKey
  parsed,          \* what parseSecretKey returned for it, once it has returned
  reparsed         \* what parseSecretKey returned for its own result

keyVars == <<secretKeyInput, parsed, reparsed>>

VARIABLES
  maxOpportunities, \* MarketMonitor.maxOpportunities
  opportunities     \* MarketMonitor.opportunities, the list handed to the listeners

monVars == <<maxOpportunities, opportunities>>

VARIABLES
  secretKey,        \* WalletConnection.config.secretKey
  walletManager,    \* this.walletManager is not null
  connected,        \* WalletConnection.connected
  connectionError,  \* WalletConnection.connectionError, "null" or the kind of message
  connecting,       \* the await a connect() call is suspended at, or "idle"
  lastConnect,      \* history: what the last connect() call that returned has returned
  returns           \* history: number of connect() calls that have returned

walVars == <<secretKey, walletManager, connected, connectionError, connecting, lastConnect,
             returns>>

vars == <<detVars, txVars, anVars, colVars, keyVars, monVars, walVars>>

----------------------------------------------------------------------------
(***************************************************************************)
(* ArbitrageDetector                                                       *)
(***************************************************************************)

\* The synchronous part of a handler works on a copy of the detector's
\* fields and the action installs the result.
DetState ==
  [objs |-> objs, map |-> detectedOpportunities, lastExecutionTime |-> lastExecutionTime,
   activeExecutions |-> activeExecutions, running |-> running,
   started |-> started, redelivered |-> redelivered,
   strategy |-> strategy, clock |-> now]

\* `${sourceDex}-${targetDex}-${pair}-${direction}-${timestamp}`: the venue
\* and pair names hold no '-', so the string is one-to-one with the tuple.
generateOpportunityId(o) ==
  <<o.sourceDex, o.targetDex, o.pair, o.direction, o.timestamp>>

\* this.detectedOpportunities.has(id)
MapHas(S, id) == \E i \in S.map : S.objs[i].id = id

\* ArbitrageStrategy: the fields of a strategy that was never constructed
NoStrategy ==
  [registered |-> FALSE,
   config |-> [minProfitThreshold |-> DefaultMinProfitThreshold,
               prioritizePairs |-> {}, blacklistPairs |-> {},
               prioritizeDexes |-> {}, blacklistDexes |-> {},
               minTradeIntervalMs |-> 1, maxDailyTrades |-> 1],
   dailyTradeCount |-> 0, lastTradeTime |-> 0, dailyResetTime |-> 0, countedFrom |-> 1]

\* midnight UTC of the day after t
MidnightAfter(t) == ((t \div DayLength) + 1) * DayLength

resetDailyTradeCount(G, t) ==
  [G EXCEPT !.dailyTradeCount = 0, !.dailyResetTime = MidnightAfter(t)]

\* checkTradeLimits(): the value returned, the check that returned it and
\* the fields of the strategy after the call
checkTradeLimits(G0, t) ==
  LET G == IF t > G0.dailyResetTime THEN resetDailyTradeCount(G0, t) ELSE G0 IN
  IF G.dailyTradeCount >= G.config.maxDailyTrades
  THEN [ok |-> FALSE, why |-> "dailycap", strategy |-> G]
  ELSE IF t - G.lastTradeTime < G.config.minTradeIntervalMs
  THEN [ok |-> FALSE, why |-> "interval", strategy |-> G]
  ELSE [ok |-> TRUE, why |-> "passed",
        strategy |-> [G EXCEPT !.lastTradeTime = t, !.dailyTradeCount = @ + 1]]

\* profitPercentage < minProfitThreshold * 1.5
BelowPriorityProfit(o, c) == o.profitPercentage * 2 < c.minProfitThreshold * 3

filterOpportunity(c, o) ==
  IF o.pair \in c.blacklistPairs THEN FALSE
  ELSE IF o.sourceDex \in c.blacklistDexes \/ o.targetDex \in c.blacklistDexes THEN FALSE
  ELSE IF o.profitPercentage < c.minProfitThreshold THEN FALSE
  ELSE IF /\ c.prioritizePairs # {}
          /\ o.pair \notin c.prioritizePairs
          /\ BelowPriorityProfit(o, c) THEN FALSE
  ELSE IF /\ c.prioritizeDexes # {}
          /\ o.sourceDex \notin c.prioritizeDexes
          /\ o.targetDex \notin c.prioritizeDexes
          /\ BelowPriorityProfit(o, c) THEN FALSE
  ELSE TRUE

\* ArbitrageStrategy.handleOpportunity, the listener the strategy registers
\* with the detector; it returns nothing. verdict keeps which of its checks
\* returned and countedFrom the first opportunity handled since the daily
\* counter was last reset (both history only)
handleOpportunity(S, i) ==
  IF ~S.strategy.registered THEN S
  ELSE IF S.objs[i].status # "pending" THEN S
  ELSE IF ~filterOpportunity(S.strategy.config, S.objs[i])
       THEN [S EXCEPT !.objs[i].verdict = "filtered"]
  ELSE LET r == checkTradeLimits(S.strategy, S.clock) IN
       [S EXCEPT !.strategy = [r.strategy EXCEPT !.countedFrom =
                                 IF S.clock > S.strategy.dailyResetTime THEN i ELSE @],
                 !.objs[i].verdict = r.why]

\* the registered listeners in registration order, each by what a call of it
\* does: the first one throws, the second returns
opportunityCallbacks == <<"throws", "returns">>

\* mutant: no try/catch around the call, the first throw ends the loop
RECURSIVE CallbackLoop_NoCatch(_, _, _)
CallbackLoop_NoCatch(S, i, n) ==
  IF n > Len(opportunityCallbacks) THEN S
  ELSE LET S1 == [S EXCEPT !.objs[i].notified[n] = Append(@, S.objs[i].status)] IN
       IF opportunityCallbacks[n] = "throws" THEN S1
       ELSE CallbackLoop_NoCatch(S1, i, n + 1)

\* the loop over the listeners from the n-th on: callback(opportunity) is
\* called inside try, a throw is caught and logged, and the loop goes on;
\* notified keeps, per object and listener, the statuses it was called with
RECURSIVE CallbackLoop(_, _, _)
CallbackLoop(S, i, n) ==
  IF n > Len(opportunityCallbacks) THEN S
  ELSE CallbackLoop([S EXCEPT !.objs[i].notified[n] = Append(@, S.objs[i].status)],
                    i, n + 1)

\* the listeners of the detector, then the strategy's handleOpportunity
notifyOpportunityCallbacks(S, i) == handleOpportunity(CallbackLoop(S, i, 1), i)

\* mutant: the listeners are not told that the execution has begun
executeOpportunityStart_NoNotify(S, i, t) ==
  [S EXCEPT !.objs[i].status = "executing",
            !.objs[i].executionTimestamp = t,
            !.lastExecutionTime = t,
            !.activeExecutions = @ + 1,
            !.running = @ \cup {i},
            !.started = @ + 1]

\* executeOpportunity up to its await: the code runs it inside the caller's
\* synchronous turn.
executeOpportunityStart(S, i, t) ==
  notifyOpportunityCallbacks(
    [S EXCEPT !.objs[i].status = "executing",
              !.objs[i].executionTimestamp = t,
              !.lastExecutionTime = t,
              !.activeExecutions = @ + 1,
              !.running = @ \cup {i},
              !.started = @ + 1], i)

\* gate records which check of evaluateForExecution returned and evaluations
\* the calls of evaluateForExecution for the object (both history only)
Rejected(S, i, why) == [S EXCEPT !.objs[i].gate = why, !.objs[i].evaluations = @ + 1]

\* mutant: the concurrency gate compares with > instead of >=
evaluateForExecution_OffByOne(S, i, t, run, cfg) ==
  IF ~run THEN Rejected(S, i, "stopped")
  ELSE IF S.activeExecutions > cfg.maxConcurrentTrades THEN Rejected(S, i, "concurrency")
  ELSE IF t - S.lastExecutionTime < cfg.cooldownMs THEN Rejected(S, i, "cooldown")
  ELSE IF S.objs[i].profitPercentage < cfg.minProfitThreshold THEN Rejected(S, i, "profit")
  ELSE executeOpportunityStart(Rejected(S, i, "admitted"), i, t)

\* mutant: the cooldown gate is missing
evaluateForExecution_NoCooldown(S, i, t, run, cfg) ==
  IF ~run THEN Rejected(S, i, "stopped")
  ELSE IF S.activeExecutions >= cfg.maxConcurrentTrades THEN Rejected(S, i, "concurrency")
  ELSE IF S.objs[i].profitPercentage < cfg.minProfitThreshold THEN Rejected(S, i, "profit")
  ELSE executeOpportunityStart(Rejected(S, i, "admitted"), i, t)

evaluateForExecution(S, i, t, run, cfg) ==
  IF ~run THEN Rejected(S, i, "stopped")
  ELSE IF S.activeExecutions >= cfg.maxConcurrentTrades THEN Rejected(S, i, "concurrency")
  ELSE IF t - S.lastExecutionTime < cfg.cooldownMs THEN Rejected(S, i, "cooldown")
  ELSE IF S.objs[i].profitPercentage < cfg.minProfitThreshold THEN Rejected(S, i, "profit")
  ELSE executeOpportunityStart(Rejected(S, i, "admitted"), i, t)

NewObject(o, id) ==
  [id |-> id, sourceDex |-> o.sourceDex, targetDex |-> o.targetDex,
   pair |-> o.pair, direction |-> o.direction,
   timestamp |-> o.timestamp, profitPercentage |-> o.profitPercentage,
   status |-> "pending", executionTimestamp |-> 0,
   error |-> "", gate |-> "none", evaluations |-> 0, verdict |-> "none",
   notified |-> [n \in 1..Len(opportunityCallbacks) |-> <<>>]]

\* mutant: the loop does not skip an id the map already holds
HandleOne_NoDedup(S, o, t, run, cfg) ==
  LET id == generateOpportunityId(o)
      i == Len(S.objs) + 1
      S1 == [S EXCEPT !.objs = Append(@, NewObject(o, id)),
                      !.map = {k \in @ : S.objs[k].id # id} \cup {i}]
  IN evaluateForExecution(notifyOpportunityCallbacks(S1, i), i, t, run, cfg)

\* mutant: an id the map already holds is evaluated for execution again
HandleOne_Reevaluate(S, o, t, run, cfg) ==
  LET id == generateOpportunityId(o) IN
  IF MapHas(S, id)
  THEN evaluateForExecution([S EXCEPT !.redelivered = TRUE],
                            CHOOSE k \in S.map : S.objs[k].id = id, t, run, cfg)
  ELSE LET i == Len(S.objs) + 1
           S1 == [S EXCEPT !.objs = Append(@, NewObject(o, id)), !.map = @ \cup {i}]
       IN evaluateForExecution(notifyOpportunityCallbacks(S1, i), i, t, run, cfg)

\* one iteration of the for loop of handleOpportunities; redelivered records
\* that an iteration found its id in the map and went on (history only)
HandleOne(S, o, t, run, cfg) ==
  LET id == generateOpportunityId(o) IN
  IF MapHas(S, id) THEN [S EXCEPT !.redelivered = TRUE]
  ELSE LET i == Len(S.objs) + 1
           S1 == [S EXCEPT !.objs = Append(@, NewObject(o, id)), !.map = @ \cup {i}]
       IN evaluateForExecution(notifyOpportunityCallbacks(S1, i), i, t, run, cfg)

\* the for loop of handleOpportunities; d ticks pass between two iterations
RECURSIVE HandleLoop(_, _, _, _, _, _)
HandleLoop(S, batch, t, d, run, cfg) ==
  IF batch = <<>> THEN S
  ELSE HandleLoop(HandleOne([S EXCEPT !.clock = t], Head(batch), t, run, cfg),
                  Tail(batch), t + d, d, run, cfg)

\* mutant: an entry that is executing is kept
cleanupOldOpportunities_KeepExecuting(S, t) ==
  [S EXCEPT !.map = {i \in @ : \/ ~(t - S.objs[i].timestamp > OpportunityMaxAge)
                               \/ S.objs[i].status = "executing"}]

cleanupOldOpportunities(S, t) ==
  [S EXCEPT !.map = {i \in @ : ~(t - S.objs[i].timestamp > OpportunityMaxAge)}]

\* the clock when the loop over batch is left
LoopEnd(batch, t, d) == IF Len(batch) > 1 THEN t + d * (Len(batch) - 1) ELSE t

\* The opportunity lists MarketMonitor can deliver at time t: one detection
\* pass stamps every opportunity with its own Date.now(), reports a
\* (source, target, pair) at most once and sorts by falling profitPercentage.
OppsAt(t) ==
  [sourceDex : DexNames, targetDex : DexNames, pair : PairNames, direction : {"buy"},
   timestamp : {t}, profitPercentage : ProfitChoices]

SameKey(a, b) ==
  a.sourceDex = b.sourceDex /\ a.targetDex = b.targetDex /\ a.pair = b.pair

BatchesAt(t) ==
  {<<>>} \cup {<<a>> : a \in {o \in OppsAt(t) : o.sourceDex # o.targetDex}}
         \cup {<<a, b>> : a \in {o \in OppsAt(t) : o.sourceDex # o.targetDex},
                          b \in {o \in OppsAt(t) : o.sourceDex # o.targetDex}}

Batches(t) ==
  {b \in BatchesAt(t) :
     Len(b) = 2 => /\ ~SameKey(b[1], b[2])
                   /\ b[1].profitPercentage >= b[2].profitPercentage}

Install(S) ==
  /\ objs' = S.objs
  /\ detectedOpportunities' = S.map
  /\ lastExecutionTime' = S.lastExecutionTime
  /\ activeExecutions' = S.activeExecutions
  /\ running' = S.running
  /\ started' = S.started
  /\ redelivered' = S.redelivered
  /\ strategy' = S.strategy

DetInit ==
  /\ now = DefaultCooldownMs      \* Date.now() is far past any cooldown at start-up
  /\ isRunning = FALSE
  /\ config \in [maxConcurrentTrades : {1, MaxConc}, cooldownMs : CooldownChoices,
                 minProfitThreshold : {DefaultMinProfitThreshold}]
  /\ objs = <<>>
  /\ detectedOpportunities = {}
  /\ lastExecutionTime = 0
  /\ activeExecutions = 0
  /\ running = {}
  /\ started = 0
  /\ finished = 0
  /\ redelivered = FALSE
  /\ strategy = NoStrategy

Start ==
  /\ UNCHANGED <<txVars, anVars, colVars, keyVars, monVars, walVars>>
  /\ ~isRunning
  /\ isRunning' = TRUE
  /\ UNCHANGED <<now, config, objs, detectedOpportunities, lastExecutionTime,
                 activeExecutions, running, started, finished, redelivered, strategy>>

\* mutant: stop() also gives up the executions in flight
Stop_AbortInFlight ==
  /\ UNCHANGED <<txVars, anVars, colVars, keyVars, monVars, walVars>>
  /\ isRunning' = FALSE
  /\ objs' = [i \in DOMAIN objs |->
               IF i \in running THEN [objs[i] EXCEPT !.status = "failed"] ELSE objs[i]]
  /\ running' = {}
  /\ activeExecutions' = 0
  /\ finished' = finished + Cardinality(running)
  /\ UNCHANGED <<now, config, detectedOpportunities, lastExecutionTime,
                 started, redelivered, strategy>>

\* stop(): returns at once when the detector is not running, otherwise
\* clears isRunning and nothing else
Stop ==
  /\ UNCHANGED <<txVars, anVars, colVars, keyVars, monVars, walVars>>
  /\ isRunning' = FALSE
  /\ UNCHANGED <<now, config, objs, detectedOpportunities, lastExecutionTime,
                 activeExecutions, running, started, finished, redelivered, strategy>>

\* handleOpportunities(opportunities), the whole synchronous handler
HandleOpportunities ==
  /\ UNCHANGED <<txVars, anVars, colVars, keyVars, monVars, walVars>>
  /\ isRunning
  /\ \E batch \in Batches(now) :
     \E d \in (IF Len(batch) > 1 THEN StepDelays ELSE {0}) :
       /\ Len(objs) + Len(batch) <= MaxObjs
       /\ LoopEnd(batch, now, d) <= MaxTime
       /\ Install(cleanupOldOpportunities(
                    HandleLoop([DetState EXCEPT !.redelivered = FALSE],
                               batch, now, d, isRunning, config),
                    LoopEnd(batch, now, d)))
       /\ now' = LoopEnd(batch, now, d)
  /\ UNCHANGED <<isRunning, config, finished>>

\* handleOpportunities while the detector is stopped returns at once
HandleWhileStopped ==
  /\ UNCHANGED <<txVars, anVars, colVars, keyVars, monVars, walVars>>
  /\ ~isRunning
  /\ \E batch \in Batches(now) : batch # <<>>
  /\ UNCHANGED detVars

\* mutant: the slot is released at the end of the try block, not in finally
ExecutionEnds_ReleaseInTry(i, outcome) ==
  /\ UNCHANGED <<txVars, anVars, colVars, keyVars, monVars, walVars>>
  /\ i \in running
  /\ now >= objs[i].executionTimestamp + ExecutionDelayMs
  /\ LET S1 == [DetState EXCEPT
                  !.objs[i].status = outcome,
                  !.objs[i].error = IF outcome = "failed" THEN "error" ELSE @,
                  !.activeExecutions = IF outcome = "failed" THEN @ ELSE @ - 1,
                  !.running = @ \ {i}]
     IN Install(notifyOpportunityCallbacks(S1, i))
  /\ finished' = finished + 1
  /\ UNCHANGED <<now, isRunning, config>>

\* the rest of executeOpportunity once its timer has fired: the try block
\* ends normally (completed) or an exception reaches the catch (failed);
\* the finally block runs in both cases.
ExecutionEnds(i, outcome) ==
  /\ UNCHANGED <<txVars, anVars, colVars, keyVars, monVars, walVars>>
  /\ i \in running
  /\ now >= objs[i].executionTimestamp + ExecutionDelayMs
  /\ LET S1 == [DetState EXCEPT
                  !.objs[i].status = outcome,
                  !.objs[i].error = IF outcome = "failed" THEN "error" ELSE @,
                  !.activeExecutions = @ - 1,
                  !.running = @ \ {i}]
     IN Install(notifyOpportunityCallbacks(S1, i))
  /\ finished' = finished + 1
  /\ UNCHANGED <<now, isRunning, config>>

ExecutionCompletes == \E i \in running : ExecutionEnds(i, "completed")

ExecutionFails == \E i \in running : ExecutionEnds(i, "failed")

Tick ==
  /\ UNCHANGED <<txVars, anVars, colVars, keyVars, monVars, walVars>>
  /\ now < MaxTime
  /\ now' = now + 1
  /\ UNCHANGED <<isRunning, config, objs, detectedOpportunities, lastExecutionTime,
                 activeExecutions, running, started, finished, redelivered, strategy>>

\* the clock runs on past the last tick at which opportunities are delivered,
\* until the timers of the executions in flight are due
TimerTick ==
  /\ UNCHANGED <<txVars, anVars, colVars, keyVars, monVars, walVars>>
  /\ now >= MaxTime
  /\ \E i \in running : now < objs[i].executionTimestamp + ExecutionDelayMs
  /\ now' = now + 1
  /\ UNCHANGED <<isRunning, config, objs, detectedOpportunities, lastExecutionTime,
                 activeExecutions, running, started, finished, redelivered, strategy>>

----------------------------------------------------------------------------
(***************************************************************************)
(* TransactionExecutor, SwapExecutor, ArbitrageExecutor                    *)
(*                                                                         *)
(* Amounts are integers in millionths of a token, slippageTolerance is in  *)
(* percent, so that the products and quotients of the source are exact.    *)
(***************************************************************************)
SupportedDexes == {"Serum", "Raydium", "Orca"}
MaxRetriesChoices == {0, 1, DefaultMaxRetries}
SlippageChoices == {0, 50, 100}

NoError == <<>>

\* a SwapResult that does not exist yet
NoSwap ==
  [present |-> FALSE, success |-> FALSE, error |-> NoError, inputAmount |-> 0,
   hasOutput |-> FALSE, outputAmount |-> 0, attempts |-> 0]

NoResult ==
  [present |-> FALSE, success |-> FALSE, error |-> NoError, sourceSwap |-> NoSwap,
   targetSwap |-> NoSwap, hasProfit |-> FALSE, profit |-> 0,
   profitPercentage |-> [num |-> 0, den |-> 1], opportunity |-> "none"]

NoLeg == [dex |-> "none", inputAmount |-> 0, minOutputAmount |-> 0]

TxState ==
  [apc |-> apc, stage |-> stage, retries |-> retries, attempts |-> attempts,
   submissions |-> submissions, confirmed |-> confirmed, waits |-> waits,
   waited |-> waited, legParams |-> legParams, inputAmount |-> inputAmount,
   sourceSwap |-> sourceSwap, targetSwap |-> targetSwap, result |-> result]

Leg(T) == IF T.apc = "leg2" THEN 2 ELSE 1

\* !x for a number that may be undefined
Falsy(has, x) == ~has \/ x = 0

\* expected * (1 - slippageTolerance)
MinOutput(expected, slip) == (expected * (100 - slip)) \div 100

\* executeArbitrage returns a failure
ArbitrageFailure(T, err, fallback, opp) ==
  [T EXCEPT !.apc = "done", !.stage = "none",
            !.result = [present |-> TRUE, success |-> FALSE,
                        error |-> IF err # NoError THEN err ELSE fallback,
                        sourceSwap |-> T.sourceSwap, targetSwap |-> T.targetSwap,
                        hasProfit |-> FALSE, profit |-> 0,
                        profitPercentage |-> [num |-> 0, den |-> 1],
                        opportunity |-> opp]]

\* mutant: the failure branch of leg 2 reports the error of leg 1
AfterTargetSwap_SourceError(T0, s, opp) ==
  LET T == [T0 EXCEPT !.targetSwap = s] IN
  IF ~s.success \/ Falsy(s.hasOutput, s.outputAmount)
  THEN ArbitrageFailure(T, T.sourceSwap.error,
                        <<"Source swap failed without specific error">>, opp)
  ELSE [T EXCEPT !.apc = "done", !.stage = "none",
                 !.result = [present |-> TRUE, success |-> TRUE, error |-> NoError,
                             sourceSwap |-> T.sourceSwap, targetSwap |-> s,
                             hasProfit |-> TRUE,
                             profit |-> s.outputAmount - T.inputAmount,
                             profitPercentage |->
                               [num |-> (s.outputAmount - T.inputAmount) * 100,
                                den |-> T.inputAmount],
                             opportunity |-> opp]]

\* mutant: the profit is taken against the input of leg 2
AfterTargetSwap_Leg2Input(T0, s, opp) ==
  LET T == [T0 EXCEPT !.targetSwap = s] IN
  IF ~s.success \/ Falsy(s.hasOutput, s.outputAmount)
  THEN ArbitrageFailure(T, s.error, <<"Target swap failed without specific error">>, opp)
  ELSE [T EXCEPT !.apc = "done", !.stage = "none",
                 !.result = [present |-> TRUE, success |-> TRUE, error |-> NoError,
                             sourceSwap |-> T.sourceSwap, targetSwap |-> s,
                             hasProfit |-> TRUE,
                             profit |-> s.outputAmount - s.inputAmount,
                             profitPercentage |->
                               [num |-> (s.outputAmount - s.inputAmount) * 100,
                                den |-> s.inputAmount],
                             opportunity |-> opp]]

\* executeArbitrage after the target swap has returned s
AfterTargetSwap(T0, s, opp) ==
  LET T == [T0 EXCEPT !.targetSwap = s] IN
  IF ~s.success \/ Falsy(s.hasOutput, s.outputAmount)
  THEN ArbitrageFailure(T, s.error, <<"Target swap failed without specific error">>, opp)
  ELSE [T EXCEPT !.apc = "done", !.stage = "none",
                 !.result = [present |-> TRUE, success |-> TRUE, error |-> NoError,
                             sourceSwap |-> T.sourceSwap, targetSwap |-> s,
                             hasProfit |-> TRUE,
                             profit |-> s.outputAmount - T.inputAmount,
                             profitPercentage |->
                               [num |-> (s.outputAmount - T.inputAmount) * 100,
                                den |-> T.inputAmount],
                             opportunity |-> opp]]

\* the SwapResult of the catch block of executeSwap
SwapThrew(leg, cause) ==
  [present |-> TRUE, success |-> FALSE, error |-> <<"Swap execution failed", cause>>,
   inputAmount |-> leg.inputAmount, hasOutput |-> FALSE, outputAmount |-> 0,
   attempts |-> 0]

\* executeSwap up to the first await of executeTransaction; an unknown
\* sourceDex makes createSwapInstruction throw into the catch of executeSwap
BeginTargetSwap(T0, leg, opp) ==
  LET T == [T0 EXCEPT !.apc = "leg2", !.legParams = leg] IN
  IF leg.dex \notin SupportedDexes
  THEN AfterTargetSwap(T, SwapThrew(leg, "Unsupported DEX"), opp)
  ELSE [T EXCEPT !.stage = "blockhash", !.retries = 0, !.attempts[2] = 1]

\* mutant: leg 2 is started whenever leg 1 reports success
AfterSourceSwap_OnlySuccess(T0, s, p, opp) ==
  LET T == [T0 EXCEPT !.sourceSwap = s] IN
  IF ~s.success
  THEN ArbitrageFailure(T, s.error, <<"Source swap failed without specific error">>, opp)
  ELSE BeginTargetSwap(T,
         [dex |-> p.targetDex, inputAmount |-> s.outputAmount,
          minOutputAmount |->
            MinOutput(s.outputAmount * p.targetPrice, p.slippageTolerance)], opp)

\* executeArbitrage after the source swap has returned s
AfterSourceSwap(T0, s, p, opp) ==
  LET T == [T0 EXCEPT !.sourceSwap = s] IN
  IF ~s.success \/ Falsy(s.hasOutput, s.outputAmount)
  THEN ArbitrageFailure(T, s.error, <<"Source swap failed without specific error">>, opp)
  ELSE BeginTargetSwap(T,
         [dex |-> p.targetDex, inputAmount |-> s.outputAmount,
          minOutputAmount |->
            MinOutput(s.outputAmount * p.targetPrice, p.slippageTolerance)], opp)

BeginSourceSwap(T0, leg, p, opp) ==
  LET T == [T0 EXCEPT !.apc = "leg1", !.legParams = leg] IN
  IF leg.dex \notin SupportedDexes
  THEN AfterSourceSwap(T, SwapThrew(leg, "Unsupported DEX"), p, opp)
  ELSE [T EXCEPT !.stage = "blockhash", !.retries = 0, !.attempts[1] = 1]

\* executeSwap after executeTransaction has returned r
SwapResultOf(T, r) ==
  IF ~r.success
  THEN [present |-> TRUE, success |-> FALSE, error |-> r.error,
        inputAmount |-> T.legParams.inputAmount, hasOutput |-> FALSE,
        outputAmount |-> 0, attempts |-> T.attempts[Leg(T)]]
  ELSE [present |-> TRUE, success |-> TRUE, error |-> NoError,
        inputAmount |-> T.legParams.inputAmount, hasOutput |-> TRUE,
        outputAmount |-> (T.legParams.minOutputAmount * 101) \div 100,
        attempts |-> T.attempts[Leg(T)]]

\* executeTransaction returns r: executeSwap and executeArbitrage go on
TransactionReturns(T, r, p, opp) ==
  IF Leg(T) = 1 THEN AfterSourceSwap(T, SwapResultOf(T, r), p, opp)
  ELSE AfterTargetSwap(T, SwapResultOf(T, r), opp)

\* mutant: the retry waits a fixed 1000 ms
CatchBlock_FixedDelay(T, cause, cfg, p, opp) ==
  LET r == T.retries + 1 IN
  IF r > cfg.maxRetries
  THEN TransactionReturns([T EXCEPT !.retries = r],
         [success |-> FALSE, error |-> <<"Transaction failed after attempts", cause>>],
         p, opp)
  ELSE [T EXCEPT !.retries = r, !.stage = "backoff",
                 !.waits[Leg(T)] = Append(@, 1000)]

\* the catch block of the retry loop of executeTransaction
CatchBlock(T, cause, cfg, p, opp) ==
  LET r == T.retries + 1 IN
  IF r > cfg.maxRetries
  THEN TransactionReturns([T EXCEPT !.retries = r],
         [success |-> FALSE, error |-> <<"Transaction failed after attempts", cause>>],
         p, opp)
  ELSE [T EXCEPT !.retries = r, !.stage = "backoff",
                 !.waits[Leg(T)] = Append(@, 1000 * r)]

\* signAndSendTransaction is called
Submit(T) ==
  [T EXCEPT !.stage = "send", !.submissions[Leg(T)] = @ + 1]

\* the awaited call of the current stage resolved without error
Resolved(T, cfg, p, opp) ==
  CASE T.stage = "blockhash" ->
         IF cfg.simulateBeforeSubmit THEN [T EXCEPT !.stage = "simulate"] ELSE Submit(T)
    [] T.stage = "simulate" -> Submit(T)
    [] T.stage = "send" -> [T EXCEPT !.stage = "confirm", !.waited = 0]
    [] T.stage = "confirm" -> [T EXCEPT !.stage = "details", !.confirmed[Leg(T)] = TRUE]
    [] T.stage = "details" ->
         TransactionReturns(T, [success |-> TRUE, error |-> NoError], p, opp)

AwaitStages == {"blockhash", "simulate", "send", "confirm", "details"}

InstallTx(T) ==
  /\ apc' = T.apc
  /\ stage' = T.stage
  /\ retries' = T.retries
  /\ attempts' = T.attempts
  /\ submissions' = T.submissions
  /\ confirmed' = T.confirmed
  /\ waits' = T.waits
  /\ waited' = T.waited
  /\ legParams' = T.legParams
  /\ inputAmount' = T.inputAmount
  /\ sourceSwap' = T.sourceSwap
  /\ targetSwap' = T.targetSwap
  /\ result' = T.result

TxIdle ==
  /\ apc = "idle"
  /\ stage = "none"
  /\ retries = 0
  /\ attempts = [l \in 1..2 |-> 0]
  /\ submissions = [l \in 1..2 |-> 0]
  /\ confirmed = [l \in 1..2 |-> FALSE]
  /\ waits = [l \in 1..2 |-> <<>>]
  /\ waited = 0
  /\ legParams = NoLeg
  /\ inputAmount = 0
  /\ sourceSwap = NoSwap
  /\ targetSwap = NoSwap
  /\ result = NoResult

\* no executeArbitrage call is made in this run
TxUnused ==
  /\ txConfig = [maxRetries |-> DefaultMaxRetries, simulateBeforeSubmit |-> TRUE,
                 timeoutMs |-> DefaultTimeoutMs]
  /\ params = [direction |-> "buy", tradeSize |-> TradeSize, sourcePrice |-> 2,
               targetPrice |-> 3, slippageTolerance |-> 0, sourceDex |-> "Serum",
               targetDex |-> "Raydium"]
  /\ opportunity = [status |-> "pending", error |-> "", notified |-> <<"pending">>]
  /\ TxIdle

TxInit ==
  /\ txConfig \in [maxRetries : MaxRetriesChoices, simulateBeforeSubmit : BOOLEAN,
                   timeoutMs : {DefaultTimeoutMs}]
  /\ params \in [direction : {"buy", "sell"}, tradeSize : {TradeSize},
                 sourcePrice : {2}, targetPrice : {3},
                 slippageTolerance : SlippageChoices,
                 sourceDex : {"Serum", "Jupiter"}, targetDex : {"Raydium", "Jupiter"}]
  /\ opportunity \in [status : {"pending", "executing"}, error : {""},
                      notified : {<<"pending">>}]
  /\ TxIdle

\* executeArbitrage(params) up to its first await
ExecuteArbitrage ==
  /\ apc = "idle"
  /\ LET amount == IF params.direction = "buy"
                   THEN params.tradeSize * params.sourcePrice
                   ELSE params.tradeSize
         leg == [dex |-> params.sourceDex, inputAmount |-> amount,
                 minOutputAmount |->
                   MinOutput(amount \div params.sourcePrice, params.slippageTolerance)]
     IN InstallTx(BeginSourceSwap([TxState EXCEPT !.inputAmount = amount], leg,
                                  params, opportunity.status))
  /\ UNCHANGED <<txConfig, params, opportunity>>
  /\ UNCHANGED <<detVars, anVars, colVars, keyVars, monVars, walVars>>

\* the RPC call executeTransaction awaits answers without error
AwaitResolves ==
  /\ stage \in AwaitStages
  /\ InstallTx(Resolved(TxState, txConfig, params, opportunity.status))
  /\ UNCHANGED <<txConfig, params, opportunity>>
  /\ UNCHANGED <<detVars, anVars, colVars, keyVars, monVars, walVars>>

\* the RPC call rejects, or the simulation or the confirmation reports err
AwaitRejects ==
  /\ stage \in AwaitStages
  /\ InstallTx(CatchBlock(TxState, stage, txConfig, params, opportunity.status))
  /\ UNCHANGED <<txConfig, params, opportunity>>
  /\ UNCHANGED <<detVars, anVars, colVars, keyVars, monVars, walVars>>

\* the setTimeout of the catch block fires and the loop starts over
BackoffElapses ==
  /\ stage = "backoff"
  /\ InstallTx([TxState EXCEPT !.stage = "blockhash",
                               !.attempts[Leg(TxState)] = @ + 1])
  /\ UNCHANGED <<txConfig, params, opportunity>>
  /\ UNCHANGED <<detVars, anVars, colVars, keyVars, monVars, walVars>>

\* time passes while confirmTransaction has not answered; nothing in
\* executeTransaction reads config.timeoutMs or races the call with a timer
ConfirmationPending ==
  /\ stage = "confirm"
  /\ waited < MaxWait
  /\ waited' = waited + 1
  /\ UNCHANGED <<txConfig, params, opportunity, apc, stage, retries, attempts,
                 submissions, confirmed, waits, legParams, inputAmount, sourceSwap,
                 targetSwap, result>>
  /\ UNCHANGED <<detVars, anVars, colVars, keyVars, monVars, walVars>>

----------------------------------------------------------------------------
(***************************************************************************)
(* MarketAnalyzer.findArbitrageOpportunities                               *)
(*                                                                         *)
(* Prices are integers in tenths of a USD, minProfitThreshold is in        *)
(* hundredths of a percent, tradeSizeUsd in USD; percentages and profits   *)
(* are kept as fractions num/den so that every comparison is exact.        *)
(***************************************************************************)
VenueNames == <<"Serum", "Raydium", "Orca">>
PriceChoices == {1000, 1002, 1005, 1010}
ThresholdChoices == {DefaultMinProfitThreshold}
TradeSizeUsdChoices == {10, 15, 1000}
CallTimeOfPass == MaxQuoteAge + 1
QuoteTimes == {0, 1, CallTimeOfPass}   \* ages: stale, exactly the window, new

NoDetection == [returned |-> FALSE, calls |-> 0, list |-> <<>>]

\* a / b >= c / d and a / b > c / d for fractions with positive denominators
FracGeq(a, b) == a.num * b.den >= b.num * a.den

FracGt(a, b) == a.num * b.den > b.num * a.den

\* mutant: the profit threshold is exclusive
Candidate_StrictThreshold(entry, exit, pair, an, t) ==
  LET profitPerUnit == exit.bid - entry.ask
      profitPercentage == [num |-> profitPerUnit * 100, den |-> entry.ask]
      estimatedProfit == [num |-> profitPerUnit * an.tradeSizeUsd * 100
                                    - GasCostCents * entry.ask,
                          den |-> entry.ask * 100]
  IN IF /\ exit.bid > entry.ask
        /\ FracGt(profitPercentage, [num |-> an.minProfitThreshold, den |-> 100])
        /\ FracGt(estimatedProfit, [num |-> 0, den |-> 1])
     THEN << [sourceDex |-> entry.dex, targetDex |-> exit.dex, pair |-> pair,
              profitPercentage |-> profitPercentage,
              estimatedProfit |-> estimatedProfit,
              sourcePrice |-> entry.ask, targetPrice |-> exit.bid,
              direction |-> "buy", timestamp |-> t,
              tradeSize |-> [num |-> an.tradeSizeUsd * 10, den |-> entry.ask]] >>
     ELSE <<>>

\* mutant: the entry is priced at the bid and the exit at the ask
Candidate_SwappedSides(entry, exit, pair, an, t) ==
  LET profitPerUnit == exit.ask - entry.bid
      profitPercentage == [num |-> profitPerUnit * 100, den |-> entry.bid]
      estimatedProfit == [num |-> profitPerUnit * an.tradeSizeUsd * 100
                                    - GasCostCents * entry.bid,
                          den |-> entry.bid * 100]
  IN IF /\ exit.ask > entry.bid
        /\ FracGeq(profitPercentage, [num |-> an.minProfitThreshold, den |-> 100])
        /\ FracGt(estimatedProfit, [num |-> 0, den |-> 1])
     THEN << [sourceDex |-> entry.dex, targetDex |-> exit.dex, pair |-> pair,
              profitPercentage |-> profitPercentage,
              estimatedProfit |-> estimatedProfit,
              sourcePrice |-> entry.bid, targetPrice |-> exit.ask,
              direction |-> "buy", timestamp |-> t,
              tradeSize |-> [num |-> an.tradeSizeUsd * 10, den |-> entry.bid]] >>
     ELSE <<>>

\* the opportunity of entering at entry.ask and leaving at exit.bid, if any
Candidate(entry, exit, pair, an, t) ==
  LET profitPerUnit == exit.bid - entry.ask
      profitPercentage == [num |-> profitPerUnit * 100, den |-> entry.ask]
      estimatedProfit == [num |-> profitPerUnit * an.tradeSizeUsd * 100
                                    - GasCostCents * entry.ask,
                          den |-> entry.ask * 100]
  IN IF /\ exit.bid > entry.ask
        /\ FracGeq(profitPercentage, [num |-> an.minProfitThreshold, den |-> 100])
        /\ FracGt(estimatedProfit, [num |-> 0, den |-> 1])
     THEN << [sourceDex |-> entry.dex, targetDex |-> exit.dex, pair |-> pair,
              profitPercentage |-> profitPercentage,
              estimatedProfit |-> estimatedProfit,
              sourcePrice |-> entry.ask, targetPrice |-> exit.bid,
              direction |-> "buy", timestamp |-> t,
              tradeSize |-> [num |-> an.tradeSizeUsd * 10, den |-> entry.ask]] >>
     ELSE <<>>

\* mutant: the freshness window is one unit too long
Stale_Lenient(q, t) == t - q.timestamp > MaxQuoteAge + 1

Stale(q, t) == t - q.timestamp > MaxQuoteAge

\* mutant: the second branch tags its opportunity "sell"
CompareVenues_SellTag(dexA, dexB, pair, an, t) ==
  IF Stale(dexA, t) \/ Stale(dexB, t) THEN <<>>
  ELSE Candidate(dexA, dexB, pair, an, t)
         \o [k \in 1..Len(Candidate(dexB, dexA, pair, an, t)) |->
               [Candidate(dexB, dexA, pair, an, t)[k] EXCEPT !.direction = "sell"]]

\* the body of the inner loop for priceDataArray[i] = dexA, priceDataArray[j] = dexB
CompareVenues(dexA, dexB, pair, an, t) ==
  IF Stale(dexA, t) \/ Stale(dexB, t) THEN <<>>
  ELSE Candidate(dexA, dexB, pair, an, t) \o Candidate(dexB, dexA, pair, an, t)

\* the two loops over i < j of one priceDataArray, from (i, j) on
RECURSIVE VenueLoop(_, _, _, _, _, _)
VenueLoop(arr, i, j, pair, an, t) ==
  IF i > Len(arr) THEN <<>>
  ELSE IF j > Len(arr) THEN VenueLoop(arr, i + 1, i + 2, pair, an, t)
  ELSE CompareVenues(arr[i], arr[j], pair, an, t)
         \o VenueLoop(arr, i, j + 1, pair, an, t)

\* the loop over the entries of marketData
RECURSIVE EntryLoop(_, _, _)
EntryLoop(entries, an, t) ==
  IF entries = <<>> THEN <<>>
  ELSE (IF Len(Head(entries).quotes) < 2 THEN <<>>
        ELSE VenueLoop(Head(entries).quotes, 1, 2, Head(entries).pair, an, t))
         \o EntryLoop(Tail(entries), an, t)

\* mutant: o is inserted in front of the elements of equal profitPercentage
RECURSIVE InsertByProfit_BeforeTies(_, _)
InsertByProfit_BeforeTies(sorted, o) ==
  IF sorted = <<>> THEN <<o>>
  ELSE IF FracGt(Head(sorted).profitPercentage, o.profitPercentage)
       THEN <<Head(sorted)>> \o InsertByProfit_BeforeTies(Tail(sorted), o)
       ELSE <<o>> \o sorted

\* insert o behind every element whose profitPercentage is not smaller
RECURSIVE InsertByProfit(_, _)
InsertByProfit(sorted, o) ==
  IF sorted = <<>> THEN <<o>>
  ELSE IF FracGeq(Head(sorted).profitPercentage, o.profitPercentage)
       THEN <<Head(sorted)>> \o InsertByProfit(Tail(sorted), o)
       ELSE <<o>> \o sorted

\* opportunities.sort((a, b) => b.profitPercentage - a.profitPercentage), stable
RECURSIVE SortByProfit(_)
SortByProfit(list) ==
  IF list = <<>> THEN <<>>
  ELSE InsertByProfit(SortByProfit(SubSeq(list, 1, Len(list) - 1)), list[Len(list)])

findArbitrageOpportunities(entries, an, t) == SortByProfit(EntryLoop(entries, an, t))

QuotesOf(k) ==
  [dex : {VenueNames[k]}, bid : PriceChoices, ask : PriceChoices, timestamp : QuoteTimes]

\* the PriceData arrays of at most n venues, each venue at its own position
RECURSIVE PriceDataArrays(_)
PriceDataArrays(n) ==
  IF n = 0 THEN {<<>>}
  ELSE PriceDataArrays(n - 1)
         \cup {Append(arr, q) : arr \in {a \in PriceDataArrays(n - 1) : Len(a) = n - 1},
                                q \in QuotesOf(n)}

AnUnused ==
  /\ analyzer = [minProfitThreshold |-> DefaultMinProfitThreshold, tradeSizeUsd |-> 1000]
  /\ marketData = <<>>
  /\ callTime = CallTimeOfPass
  /\ detected = NoDetection

AnInit ==
  /\ analyzer \in [minProfitThreshold : ThresholdChoices, tradeSizeUsd : TradeSizeUsdChoices]
  /\ marketData \in {<<[pair |-> p, quotes |-> arr]>> :
                       p \in PairNames, arr \in PriceDataArrays(MaxVenues)}
  /\ callTime = CallTimeOfPass
  /\ detected = NoDetection

\* one call of findArbitrageOpportunities(marketData)
Detect ==
  /\ ~detected.returned
  /\ detected' = [returned |-> TRUE, calls |-> 1,
                  list |-> findArbitrageOpportunities(marketData, analyzer, callTime)]
  /\ UNCHANGED <<analyzer, marketData, callTime>>
  /\ UNCHANGED <<detVars, txVars, colVars, keyVars, monVars, walVars>>

----------------------------------------------------------------------------
(***************************************************************************)
(* MarketDataCollector                                                     *)
(*                                                                         *)
(* A quote is labelled with the collectData call that fetched it. An array *)
(* of the table is created once per pair and then updated in place, so a   *)
(* Map copied from the table shares its arrays with the table.             *)
(***************************************************************************)
ProviderOrder == <<"Serum", "Raydium", "Orca">>
DexesChoices == {{}, {"Serum"}, {"Raydium"}, {"Serum", "Raydium"}}
CollectorPairs == <<"SOL/USDC">>

\* the first subscriber throws, the second is MarketMonitor.handlePriceUpdate
updateCallbacks == <<"throws", "monitor">>

\* the listeners registered with the MarketMonitor: one throws, one returns
monitorCallbacks == <<"throws", "returns">>

NoPriceData == [p \in {CollectorPairs[k] : k \in 1..Len(CollectorPairs)} |-> <<>>]

\* the providers initialize() creates for the configured names, in the
\* order of its three if statements; live is what provider.initialize()
\* returned
RECURSIVE CreateProviders(_, _, _)
CreateProviders(n, names, serumLive) ==
  IF n > Len(ProviderOrder) THEN <<>>
  ELSE IF ProviderOrder[n] \in names
       THEN <<[name |-> ProviderOrder[n],
               live |-> IF ProviderOrder[n] = "Serum" THEN serumLive ELSE TRUE]>>
              \o CreateProviders(n + 1, names, serumLive)
       ELSE CreateProviders(n + 1, names, serumLive)

\* the synchronous parts of collectData work on a copy of the collector's
\* fields and the action installs the result
ColState ==
  [priceData |-> priceData, cycles |-> cycles, published |-> published, ended |-> ended]

\* the (provider, pair) a collectData call fetches in its pos-th iteration
ProviderAt(pos) == ((pos - 1) \div Len(CollectorPairs)) + 1
PairAt(pos) == CollectorPairs[((pos - 1) % Len(CollectorPairs)) + 1]
Iterations == Len(providers) * Len(CollectorPairs)

\* what provider.getPrice can resolve to: a dead provider has no market and
\* answers null, a live one answers a quote or, on a failed fetch, null
FetchOutcomes(pos) == IF providers[ProviderAt(pos)].live THEN {"quote", "null"} ELSE {"null"}

\* mutant: the quote is pushed whether or not the venue has one
StoreQuote_AlwaysPush(pd, q) ==
  [pd EXCEPT ![q.pair] = Append(@, q)]

\* pairData[existingIndex] = data, or pairData.push(data)
StoreQuote(pd, q) ==
  LET arr == pd[q.pair]
      idx == {n \in 1..Len(arr) : arr[n].dex = q.dex}
  IN [pd EXCEPT ![q.pair] =
        IF idx # {} THEN [arr EXCEPT ![CHOOSE n \in idx : \A m \in idx : n <= m] = q]
        ELSE Append(arr, q)]

\* new Map(this.priceData): the keys of the table, each with the table's array
getPriceData(pd) == {p \in DOMAIN pd : pd[p] # <<>>}

\* MarketMonitor.notifyOpportunityCallbacks: every listener from the n-th on
\* is called inside try/catch
RECURSIVE MonitorLoop(_, _)
MonitorLoop(called, n) ==
  IF n > Len(monitorCallbacks) THEN called
  ELSE MonitorLoop(Append(called, n), n + 1)

\* mutant: the first subscriber that throws ends the loop
RECURSIVE UpdateLoop_NoCatch(_, _)
UpdateLoop_NoCatch(snap, n) ==
  IF n > Len(updateCallbacks) THEN snap
  ELSE IF updateCallbacks[n] = "throws"
       THEN [snap EXCEPT !.receivers = Append(@, n)]
       ELSE UpdateLoop_NoCatch([snap EXCEPT !.receivers = Append(@, n),
                                            !.forwarded = MonitorLoop(@, 1)], n + 1)

\* the loop of notifyUpdateCallbacks from the n-th subscriber on: the call
\* is inside try, a throw is caught and logged and the loop goes on
RECURSIVE UpdateLoop(_, _)
UpdateLoop(snap, n) ==
  IF n > Len(updateCallbacks) THEN snap
  ELSE IF updateCallbacks[n] = "throws"
       THEN UpdateLoop([snap EXCEPT !.receivers = Append(@, n)], n + 1)
       ELSE UpdateLoop([snap EXCEPT !.receivers = Append(@, n),
                                    !.forwarded = MonitorLoop(@, 1)], n + 1)

\* notifyUpdateCallbacks() at the end of call c; the record keeps what was
\* handed out and the circumstances (history)
notifyUpdateCallbacks(C, c) ==
  [C EXCEPT !.published =
     Append(@, UpdateLoop([cycle |-> c,
                           keys |-> getPriceData(C.priceData),
                           content |-> C.priceData,
                           unfinished |-> DOMAIN C.cycles \ {c},
                           outcomes |-> C.cycles[c].outcomes,
                           receivers |-> <<>>,
                           forwarded |-> <<>>], 1))]

\* collectData returns
CycleReturns(C, c) ==
  [C EXCEPT !.cycles = [d \in DOMAIN C.cycles \ {c} |-> C.cycles[d]],
            !.ended = @ \cup {c}]

\* mutant: a null answer ends the call without publishing
collectDataStep_AbortOnNull(C, c, outcome) ==
  LET pos == C.cycles[c].pos
      q == [dex |-> providers[ProviderAt(pos)].name, pair |-> PairAt(pos), cycle |-> c]
      C1 == [C EXCEPT !.priceData = IF outcome = "quote" THEN StoreQuote(@, q) ELSE @,
                      !.cycles[c].pos = pos + 1,
                      !.cycles[c].outcomes = Append(@, outcome)]
  IN IF outcome = "null" THEN CycleReturns(C1, c)
     ELSE IF pos < Iterations THEN C1
     ELSE CycleReturns(notifyUpdateCallbacks(C1, c), c)

\* collectData call c from the return of its awaited getPrice to its next
\* await, or to its end
collectDataStep(C, c, outcome) ==
  LET pos == C.cycles[c].pos
      q == [dex |-> providers[ProviderAt(pos)].name, pair |-> PairAt(pos), cycle |-> c]
      C1 == [C EXCEPT !.priceData = IF outcome = "quote" THEN StoreQuote(@, q) ELSE @,
                      !.cycles[c].pos = pos + 1,
                      !.cycles[c].outcomes = Append(@, outcome)]
  IN IF pos < Iterations THEN C1
     ELSE CycleReturns(notifyUpdateCallbacks(C1, c), c)

\* collectData up to its first await
collectDataStart(C, c) ==
  [C EXCEPT !.cycles = [d \in DOMAIN C.cycles \cup {c} |->
                          IF d = c THEN [pos |-> 1, outcomes |-> <<>>] ELSE C.cycles[d]]]

InstallCol(C) ==
  /\ priceData' = C.priceData
  /\ cycles' = C.cycles
  /\ published' = C.published
  /\ ended' = C.ended

ColConstructed ==
  /\ providers = <<>>
  /\ isInitialized = FALSE
  /\ initResult = "none"
  /\ pollingInterval = FALSE
  /\ activeTimers = 0
  /\ lastStart = "none"
  /\ priceData = NoPriceData
  /\ cycles = <<>>
  /\ nextCycle = 0
  /\ published = <<>>
  /\ ended = {}

\* the collector as constructed and never initialized
ColUnused == dexes = {} /\ ColConstructed

ColInit == dexes \in DexesChoices /\ ColConstructed

\* initialize(): the providers stay in the list whatever their own
\* initialize() returned
Initialize ==
  /\ UNCHANGED <<detVars, txVars, anVars, keyVars, monVars, walVars>>
  /\ initResult = "none"
  /\ \E serumLive \in BOOLEAN :
       /\ providers' = CreateProviders(1, dexes, serumLive)
       /\ isInitialized' = (Len(providers') > 0)
       /\ initResult' = IF Len(providers') > 0 THEN "true" ELSE "false"
  /\ UNCHANGED <<dexes, pollingInterval, activeTimers, lastStart, priceData, cycles,
                 nextCycle, published, ended>>

\* mutant: start() does not look whether a timer is already set
start_NoRunningCheck(init, polling, timers) ==
  IF ~init THEN [returned |-> "refused", polling |-> polling, timers |-> timers,
                 collects |-> FALSE]
  ELSE [returned |-> "began", polling |-> TRUE, timers |-> timers + 1, collects |-> TRUE]

\* start(): the branch it returns from, the handle and the timers after the
\* call, and whether it made the first collectData call
start(init, polling, timers) ==
  IF ~init THEN [returned |-> "refused", polling |-> polling, timers |-> timers,
                 collects |-> FALSE]
  ELSE IF polling THEN [returned |-> "running", polling |-> polling, timers |-> timers,
                        collects |-> FALSE]
  ELSE [returned |-> "began", polling |-> TRUE, timers |-> timers + 1, collects |-> TRUE]

\* a call of start()
StartCollecting ==
  /\ UNCHANGED <<detVars, txVars, anVars, keyVars, monVars, walVars>>
  /\ nextCycle < MaxCycles
  /\ LET r == start(isInitialized, pollingInterval, activeTimers) IN
       /\ lastStart' = r.returned
       /\ pollingInterval' = r.polling
       /\ activeTimers' = r.timers
       /\ nextCycle' = IF r.collects THEN nextCycle + 1 ELSE nextCycle
       /\ InstallCol(IF r.collects THEN collectDataStart(ColState, nextCycle + 1)
                     ELSE ColState)
  /\ UNCHANGED <<dexes, providers, isInitialized, initResult>>

\* a call of stop(): clears the timer if there is one; collectData calls in
\* progress go on
StopCollecting ==
  /\ UNCHANGED <<detVars, txVars, anVars, keyVars, monVars, walVars>>
  /\ pollingInterval' = FALSE
  /\ activeTimers' = IF pollingInterval THEN activeTimers - 1 ELSE activeTimers
  /\ UNCHANGED <<dexes, providers, isInitialized, initResult, lastStart, priceData, cycles,
                 nextCycle, published, ended>>

\* an interval timer fires: another collectData call begins
TimerFires ==
  /\ UNCHANGED <<detVars, txVars, anVars, keyVars, monVars, walVars>>
  /\ activeTimers > 0
  /\ nextCycle < MaxCycles
  /\ nextCycle' = nextCycle + 1
  /\ InstallCol(collectDataStart(ColState, nextCycle + 1))
  /\ UNCHANGED <<dexes, providers, isInitialized, initResult, pollingInterval,
                 activeTimers, lastStart>>

\* the getPrice a collectData call awaits resolves
FetchReturns ==
  /\ UNCHANGED <<detVars, txVars, anVars, keyVars, monVars, walVars>>
  /\ \E c \in DOMAIN cycles :
     \E outcome \in FetchOutcomes(cycles[c].pos) :
       InstallCol(collectDataStep(ColState, c, outcome))
  /\ UNCHANGED <<dexes, providers, isInitialized, initResult, pollingInterval,
                 activeTimers, lastStart, nextCycle>>

----------------------------------------------------------------------------
(***************************************************************************)
(* wallet-utils: isValidSecretKeyFormat and parseSecretKey                 *)
(*                                                                         *)
(* A string is a sequence of characters. The encodings are scaled down and *)
(* keep their structure: a byte has two bits, a hex digit one bit (two hex *)
(* digits per byte), the bs58 alphabet has three characters of which "1"   *)
(* stands for zero, and a key has KeyLength bytes.                         *)
(***************************************************************************)
Bs58Alphabet == <<"1", "2", "3">>
HexDigits == <<"0", "1">>
JsonDigits == <<"0", "1", "2", "3">>
ByteBase == 4

RangeOf(seq) == {seq[k] : k \in 1..Len(seq)}

IndexIn(seq, c) == CHOOSE k \in 1..Len(seq) : seq[k] = c

\* the number a sequence of digits denotes, most significant first
RECURSIVE ValueOf(_, _)
ValueOf(digits, base) ==
  IF digits = <<>> THEN 0
  ELSE ValueOf(SubSeq(digits, 1, Len(digits) - 1), base) * base + digits[Len(digits)]

\* the shortest sequence of digits that denotes v; none for 0
RECURSIVE ToDigits(_, _)
ToDigits(v, base) ==
  IF v = 0 THEN <<>> ELSE Append(ToDigits(v \div base, base), v % base)

\* how many elements equal to z the sequence starts with
RECURSIVE LeadingCount(_, _)
LeadingCount(seq, z) ==
  IF seq = <<>> \/ Head(seq) # z THEN 0 ELSE 1 + LeadingCount(Tail(seq), z)

Repeat(x, n) == [k \in 1..n |-> x]

\* bs58.decode: throws on a character outside the alphabet; every leading
\* "1" is a zero byte, the rest is one number written in bytes
bs58decode(str) ==
  IF ~(RangeOf(str) \subseteq RangeOf(Bs58Alphabet)) THEN [ok |-> FALSE, bytes |-> <<>>]
  ELSE LET z == LeadingCount(str, Bs58Alphabet[1])
           rest == [k \in 1..(Len(str) - z) |-> IndexIn(Bs58Alphabet, str[k + z]) - 1]
       IN [ok |-> TRUE,
           bytes |-> Repeat(0, z) \o ToDigits(ValueOf(rest, Len(Bs58Alphabet)), ByteBase)]

\* mutant: leading zero bytes are not encoded
bs58encode_DropZeros(bytes) ==
  LET z == LeadingCount(bytes, 0)
      digits == ToDigits(ValueOf(SubSeq(bytes, z + 1, Len(bytes)), ByteBase),
                         Len(Bs58Alphabet))
  IN [k \in 1..Len(digits) |-> Bs58Alphabet[digits[k] + 1]]

\* bs58.encode: every leading zero byte is a "1", the rest is one number
\* written in the alphabet
bs58encode(bytes) ==
  LET z == LeadingCount(bytes, 0)
      digits == ToDigits(ValueOf(SubSeq(bytes, z + 1, Len(bytes)), ByteBase),
                         Len(Bs58Alphabet))
  IN Repeat(Bs58Alphabet[1], z) \o [k \in 1..Len(digits) |-> Bs58Alphabet[digits[k] + 1]]

isValidSecretKeyFormat(str) ==
  LET decoded == bs58decode(str) IN decoded.ok /\ Len(decoded.bytes) = KeyLength

\* String.prototype.trim
RECURSIVE TrimEnd(_)
TrimEnd(str) ==
  IF str # <<>> /\ str[Len(str)] = " " THEN TrimEnd(SubSeq(str, 1, Len(str) - 1)) ELSE str

trim(str) == LET z == LeadingCount(str, " ") IN TrimEnd(SubSeq(str, z + 1, Len(str)))

\* JSON.parse(str) returns an array: brackets around numbers separated by
\* commas (the numbers of the model have one digit)
IsJsonArray(str) ==
  /\ Len(str) >= 2
  /\ str[1] = "[" /\ str[Len(str)] = "]"
  /\ \/ Len(str) = 2
     \/ /\ Len(str) % 2 = 1
        /\ \A k \in 2..(Len(str) - 1) :
             IF k % 2 = 0 THEN str[k] \in RangeOf(JsonDigits) ELSE str[k] = ","

JsonElements(str) ==
  [k \in 1..((Len(str) - 1) \div 2) |-> IndexIn(JsonDigits, str[2 * k]) - 1]

\* trimmed.startsWith('0x') ? trimmed.slice(2) : trimmed
StripHexPrefix(str) ==
  IF Len(str) >= 2 /\ str[1] = "0" /\ str[2] = "x" THEN SubSeq(str, 3, Len(str)) ELSE str

\* /^[0-9a-fA-F]{128}$/.test(hexString)
IsHexKey(hex) == Len(hex) = 2 * KeyLength /\ RangeOf(hex) \subseteq RangeOf(HexDigits)

\* hexString.match(/.{1,2}/g).map(byte => parseInt(byte, 16))
HexBytes(hex) ==
  [k \in 1..(Len(hex) \div 2) |->
     (IndexIn(HexDigits, hex[2 * k - 1]) - 1) * Len(HexDigits)
       + (IndexIn(HexDigits, hex[2 * k]) - 1)]

NoKey == [isNull |-> TRUE, key |-> <<>>]
Key(str) == [isNull |-> FALSE, key |-> str]

parseSecretKey(input) ==
  LET trimmed == trim(input) IN
  IF isValidSecretKeyFormat(trimmed) THEN Key(trimmed)
  ELSE IF IsJsonArray(trimmed) /\ Len(JsonElements(trimmed)) = KeyLength
       THEN Key(bs58encode(JsonElements(trimmed)))
  ELSE IF IsHexKey(StripHexPrefix(trimmed))
       THEN Key(bs58encode(HexBytes(StripHexPrefix(trimmed))))
  ELSE NoKey

\* all sequences over chars of length n, and of length at most n
RECURSIVE StringsOfLen(_, _)
StringsOfLen(chars, n) ==
  IF n = 0 THEN {<<>>}
  ELSE {Append(str, c) : str \in StringsOfLen(chars, n - 1), c \in chars}

StringsUpTo(chars, n) == UNION {StringsOfLen(chars, k) : k \in 0..n}

\* a JSON array text of the given elements
RECURSIVE JsonText(_)
JsonText(elems) ==
  IF elems = <<>> THEN <<"[", "]">>
  ELSE IF Len(elems) = 1 THEN <<"[", JsonDigits[elems[1] + 1], "]">>
  ELSE <<"[", JsonDigits[elems[1] + 1], ",">> \o Tail(JsonText(Tail(elems)))

\* the inputs explored: strings over the bs58 alphabet, strings with a
\* character of no format, JSON arrays, hex strings with and without 0x,
\* each also with white space around it
KeyCores ==
  StringsUpTo(RangeOf(Bs58Alphabet), MaxKeyChars)
    \cup {<<"-">>, <<"1", "-">>, <<"[", "1">>, <<"0", "x">>, <<"1", ",", "2">>}
    \cup {JsonText(e) : e \in StringsUpTo(0..(ByteBase - 1), KeyLength + 1)}
    \cup UNION {StringsOfLen(RangeOf(HexDigits), n) :
                  n \in (2 * KeyLength - 1)..(2 * KeyLength + 1)}
    \cup {<<"0", "x">> \o h :
            h \in UNION {StringsOfLen(RangeOf(HexDigits), n) :
                           n \in (2 * KeyLength - 1)..(2 * KeyLength + 1)}}

KeyInputs ==
  KeyCores \cup {<<" ">> \o c : c \in KeyCores} \cup {c \o <<" ">> : c \in KeyCores}
           \cup {<<" ">> \o c \o <<" ">> : c \in KeyCores}

NotParsed == [returned |-> FALSE, value |-> NoKey]

KeyUnused ==
  /\ secretKeyInput = <<>>
  /\ parsed = NotParsed
  /\ reparsed = NotParsed

KeyInit ==
  /\ secretKeyInput \in KeyInputs
  /\ parsed = NotParsed
  /\ reparsed = NotParsed

\* parseSecretKey(secretKeyInput)
ParseKey ==
  /\ UNCHANGED <<detVars, txVars, anVars, colVars, monVars, walVars>>
  /\ ~parsed.returned
  /\ parsed' = [returned |-> TRUE, value |-> parseSecretKey(secretKeyInput)]
  /\ UNCHANGED <<secretKeyInput, reparsed>>

\* parseSecretKey applied to a key it returned
ParseAgain ==
  /\ UNCHANGED <<detVars, txVars, anVars, colVars, monVars, walVars>>
  /\ parsed.returned /\ ~parsed.value.isNull
  /\ ~reparsed.returned
  /\ reparsed' = [returned |-> TRUE, value |-> parseSecretKey(parsed.value.key)]
  /\ UNCHANGED <<secretKeyInput, parsed>>

----------------------------------------------------------------------------
(***************************************************************************)
(* Specifications                                                          *)
(***************************************************************************)
----------------------------------------------------------------------------
(***************************************************************************)
(* MarketMonitor                                                           *)
(*                                                                         *)
(* handlePriceUpdate runs the analyzer on the snapshot the collector hands *)
(* it, keeps the head of the result and calls its listeners, of which the  *)
(* detector's handleOpportunities is one, all in one synchronous turn.     *)
(***************************************************************************)
DefaultMaxOpportunities == 2     \* config.maxOpportunities || 10 (scaled)
MaxOpportunitiesChoices == {1, DefaultMaxOpportunities}

MonitorPrices == PriceChoices \ {1002}

MonitorQuotesOf(k) ==
  [dex : {VenueNames[k]}, bid : MonitorPrices, ask : MonitorPrices,
   timestamp : {CallTimeOfPass}]

\* the PriceData arrays of at most n venues with quotes of this moment
RECURSIVE MonitorArrays(_)
MonitorArrays(n) ==
  IF n = 0 THEN {<<>>}
  ELSE MonitorArrays(n - 1)
         \cup {Append(arr, q) : arr \in {a \in MonitorArrays(n - 1) : Len(a) = n - 1},
                                q \in MonitorQuotesOf(n)}

\* the snapshots the collector can hand to handlePriceUpdate
MonitorSnapshots ==
  {<<[pair |-> p, quotes |-> arr]>> : p \in PairNames, arr \in MonitorArrays(MaxVenues)}

\* mutant: the whole list is kept
Slice_KeepAll(list, n) == list

\* opportunities.slice(0, n) for n > 0
Slice(list, n) == SubSeq(list, 1, IF n < Len(list) THEN n ELSE Len(list))

\* the opportunity as the registry reads it: profitPercentage in hundredths
\* of a percent, rounded down, and the detection time on the registry's clock
RegistryOpportunity(o, t) ==
  [sourceDex |-> o.sourceDex, targetDex |-> o.targetDex, pair |-> o.pair,
   direction |-> o.direction, timestamp |-> t,
   profitPercentage |-> (o.profitPercentage.num * 100) \div o.profitPercentage.den]

\* callback(this.getOpportunities()): the copy of the kept list the
\* detector's handleOpportunities receives
ForwardedBatch(kept, t) == [k \in 1..Len(kept) |-> RegistryOpportunity(kept[k], t)]

MonUnused ==
  /\ maxOpportunities = DefaultMaxOpportunities
  /\ opportunities = <<>>

MonInit ==
  /\ maxOpportunities \in MaxOpportunitiesChoices
  /\ opportunities = <<>>

\* handlePriceUpdate(priceData) with the detector's handleOpportunities as
\* listener, for the first snapshot the collector publishes; the snapshot is
\* an argument and is not kept
HandlePriceUpdate ==
  /\ UNCHANGED <<txVars, colVars, keyVars, walVars>>
  /\ ~detected.returned
  /\ \E snapshot \in MonitorSnapshots :
       LET found == findArbitrageOpportunities(snapshot, analyzer, callTime)
           kept == Slice(found, maxOpportunities)
           batch == ForwardedBatch(kept, now)
       IN /\ detected' = [returned |-> TRUE, calls |-> detected.calls + 1, list |-> found]
          /\ opportunities' = kept
          /\ isRunning => Len(objs) + Len(batch) <= MaxObjs
          /\ Install(IF isRunning
                     THEN cleanupOldOpportunities(
                            HandleLoop([DetState EXCEPT !.redelivered = FALSE],
                                       batch, now, 0, isRunning, config), now)
                     ELSE DetState)
  /\ UNCHANGED <<now, isRunning, config, finished, analyzer, marketData, callTime,
                 maxOpportunities>>

----------------------------------------------------------------------------
(***************************************************************************)
(* WalletConnection                                                        *)
(***************************************************************************)
WalUnused ==
  /\ secretKey = <<>>
  /\ walletManager = FALSE
  /\ connected = FALSE
  /\ connectionError = "null"
  /\ connecting = "idle"
  /\ lastConnect = "none"
  /\ returns = 0

\* a WalletConnection as constructed with some secret key text
WalInit ==
  /\ secretKey \in KeyInputs
  /\ walletManager = FALSE
  /\ connected = FALSE
  /\ connectionError = "null"
  /\ connecting = "idle"
  /\ lastConnect = "none"
  /\ returns = 0

\* isConnected()
isConnected == connected

\* getWalletAddress()
getWalletAddress == IF ~connected \/ ~walletManager THEN "null" ELSE "address"

\* getConnectionError()
getConnectionError == connectionError

\* connect() returns { success: false } from one of its two early returns:
\* connectionError is set, connected and walletManager are left alone
ConnectRefused(message) ==
  /\ connectionError' = message
  /\ connecting' = "idle"
  /\ lastConnect' = "failure"
  /\ returns' = returns + 1
  /\ UNCHANGED <<walletManager, connected>>

\* the catch block of connect()
ConnectCaught ==
  /\ connected' = FALSE
  /\ connectionError' = "Wallet connection failed"
  /\ connecting' = "idle"
  /\ lastConnect' = "failure"
  /\ returns' = returns + 1

\* connect() up to its first await: the key is validated and, if need be,
\* parsed and replaced
ConnectBegins ==
  /\ UNCHANGED <<detVars, txVars, anVars, colVars, keyVars, monVars>>
  /\ connecting = "idle"
  /\ returns < MaxConnects
  /\ IF isValidSecretKeyFormat(secretKey)
     THEN /\ connecting' = "testNetworkConnection"
          /\ UNCHANGED <<secretKey, walletManager, connected, connectionError, lastConnect,
                         returns>>
     ELSE IF parseSecretKey(secretKey).isNull
     THEN ConnectRefused("Invalid secret key format") /\ UNCHANGED secretKey
     ELSE /\ secretKey' = parseSecretKey(secretKey).key
          /\ connecting' = "testNetworkConnection"
          /\ UNCHANGED <<walletManager, connected, connectionError, lastConnect, returns>>

\* testNetworkConnection resolves; on success the WalletManager is
\* constructed, which may throw, and getBalance() is awaited
NetworkTestReturns ==
  /\ UNCHANGED <<detVars, txVars, anVars, colVars, keyVars, monVars>>
  /\ connecting = "testNetworkConnection"
  /\ \E outcome \in {"unreachable", "keypair throws", "reachable"} :
       IF outcome = "unreachable"
       THEN ConnectRefused("Failed to connect to Solana network")
       ELSE IF outcome = "keypair throws"
       THEN ConnectCaught /\ UNCHANGED walletManager
       ELSE /\ walletManager' = TRUE
            /\ connecting' = "getBalance"
            /\ UNCHANGED <<connected, connectionError, lastConnect, returns>>
  /\ UNCHANGED secretKey

\* walletManager.getBalance() resolves or rejects
BalanceReturns ==
  /\ UNCHANGED <<detVars, txVars, anVars, colVars, keyVars, monVars>>
  /\ connecting = "getBalance"
  /\ \E resolved \in BOOLEAN :
       IF resolved
       THEN /\ connected' = TRUE
            /\ connectionError' = "null"
            /\ connecting' = "idle"
            /\ lastConnect' = "success"
            /\ returns' = returns + 1
       ELSE ConnectCaught
  /\ UNCHANGED <<secretKey, walletManager>>

\* disconnect()
Disconnect ==
  /\ UNCHANGED <<detVars, txVars, anVars, colVars, keyVars, monVars>>
  /\ walletManager' = FALSE
  /\ connected' = FALSE
  /\ UNCHANGED <<secretKey, connectionError, connecting, lastConnect, returns>>

Init == DetInit /\ TxUnused /\ AnUnused /\ ColUnused /\ KeyUnused /\ MonUnused /\ WalUnused

Next ==
  \/ Start
  \/ Stop
  \/ HandleOpportunities
  \/ HandleWhileStopped
  \/ ExecutionCompletes
  \/ ExecutionFails
  \/ Tick

Spec == Init /\ [][Next]_vars

\* the detector constructed shortly before the last tick of delivery
TimersInit ==
  /\ now = MaxTime - 1
  /\ isRunning = FALSE
  /\ config \in [maxConcurrentTrades : {1, MaxConc}, cooldownMs : CooldownChoices,
                 minProfitThreshold : {DefaultMinProfitThreshold}]
  /\ objs = <<>>
  /\ detectedOpportunities = {}
  /\ lastExecutionTime = 0
  /\ activeExecutions = 0
  /\ running = {}
  /\ started = 0
  /\ finished = 0
  /\ redelivered = FALSE
  /\ strategy = NoStrategy

InitTimers == TimersInit /\ TxUnused /\ AnUnused /\ ColUnused /\ KeyUnused /\ MonUnused /\ WalUnused

NextTimers == Next \/ TimerTick

\* time passes, and the continuation of an executeOpportunity call whose
\* timer has fired is run
SpecTimers ==
  /\ InitTimers
  /\ [][NextTimers]_vars
  /\ WF_vars(Tick)
  /\ WF_vars(TimerTick)
  /\ WF_vars(ExecutionCompletes \/ ExecutionFails)

\* the detector as constructed and never started
DetUnused ==
  /\ DetInit
  /\ config = [maxConcurrentTrades |-> 1, cooldownMs |-> DefaultCooldownMs,
               minProfitThreshold |-> DefaultMinProfitThreshold]

InitTx == DetUnused /\ TxInit /\ AnUnused /\ ColUnused /\ KeyUnused /\ MonUnused /\ WalUnused

NextTx ==
  \/ ExecuteArbitrage
  \/ AwaitResolves
  \/ AwaitRejects
  \/ BackoffElapses
  \/ ConfirmationPending

SpecTx == InitTx /\ [][NextTx]_vars

\* every RPC call is answered and every timer fires
SpecTxAnswered ==
  /\ InitTx
  /\ [][NextTx]_vars
  /\ WF_vars(ExecuteArbitrage)
  /\ WF_vars(AwaitResolves \/ AwaitRejects)
  /\ WF_vars(BackoffElapses)

\* the clock moves on between two calls
ClockTicks ==
  /\ callTime < MaxCallTime
  /\ callTime' = callTime + 1
  /\ UNCHANGED <<analyzer, marketData, detected>>
  /\ UNCHANGED <<detVars, txVars, colVars, keyVars, monVars, walVars>>

\* a further call of findArbitrageOpportunities with the same marketData
DetectAgain ==
  /\ detected.returned
  /\ detected.calls < MaxCalls
  /\ detected' = [returned |-> TRUE, calls |-> detected.calls + 1,
                  list |-> findArbitrageOpportunities(marketData, analyzer, callTime)]
  /\ UNCHANGED <<analyzer, marketData, callTime>>
  /\ UNCHANGED <<detVars, txVars, colVars, keyVars, monVars, walVars>>

InitDetect == DetUnused /\ TxUnused /\ AnInit /\ ColUnused /\ KeyUnused /\ MonUnused /\ WalUnused

BlacklistDexChoices == {{}, {"Raydium"}}
BlacklistPairChoices == {{}, PairNames}
MaxDailyTradesChoices == {1, 2}
PrioritizePairChoices == {{}, {"ETH/USDC"}}
PrioritizeDexChoices == {{}, {"Orca"}, {"Serum"}}
StrategyThresholdChoices == {DefaultMinProfitThreshold, 80}   \* 0.5 % and 0.8 %

\* the configurations a strategy is constructed with: blacklists and daily
\* caps without priority lists, or priority lists alone
StrategyConfigs ==
  {c \in [minProfitThreshold : StrategyThresholdChoices,
          prioritizePairs : PrioritizePairChoices, blacklistPairs : BlacklistPairChoices,
          prioritizeDexes : PrioritizeDexChoices, blacklistDexes : BlacklistDexChoices,
          minTradeIntervalMs : {1}, maxDailyTrades : MaxDailyTradesChoices] :
     IF c.prioritizePairs = {} /\ c.prioritizeDexes = {}
     THEN c.minProfitThreshold = DefaultMinProfitThreshold
     ELSE c.blacklistPairs = {} /\ c.blacklistDexes = {} /\ c.maxDailyTrades = 2}

\* ArbitrageManager: a strategy is constructed on the detector; its
\* constructor writes its own limits into the detector's configuration
StrategyInit ==
  /\ now = DefaultCooldownMs
  /\ isRunning = FALSE
  /\ objs = <<>>
  /\ detectedOpportunities = {}
  /\ lastExecutionTime = 0
  /\ activeExecutions = 0
  /\ running = {}
  /\ started = 0
  /\ finished = 0
  /\ redelivered = FALSE
  /\ strategy \in
       [registered : {TRUE}, config : StrategyConfigs,
        dailyTradeCount : {0}, lastTradeTime : {0},
        dailyResetTime : {MidnightAfter(DefaultCooldownMs)}, countedFrom : {1}]
  /\ config \in [maxConcurrentTrades : {1, MaxConc}, cooldownMs : {1},
                 minProfitThreshold : {strategy.config.minProfitThreshold}]

InitStrategy == StrategyInit /\ TxUnused /\ AnUnused /\ ColUnused /\ KeyUnused /\ MonUnused /\ WalUnused

InitCollector == DetUnused /\ TxUnused /\ AnUnused /\ ColInit /\ KeyUnused /\ MonUnused /\ WalUnused

InitKeys == DetUnused /\ TxUnused /\ AnUnused /\ ColUnused /\ KeyInit /\ MonUnused /\ WalUnused

InitMonitor ==
  DetUnused /\ TxUnused /\ AnUnused /\ ColUnused /\ KeyUnused /\ MonInit /\ WalUnused

NextMonitor ==
  \/ Start
  \/ Stop
  \/ HandlePriceUpdate
  \/ ExecutionCompletes
  \/ ExecutionFails
  \/ Tick

SpecMonitor == InitMonitor /\ [][NextMonitor]_vars

InitWallet ==
  DetUnused /\ TxUnused /\ AnUnused /\ ColUnused /\ KeyUnused /\ MonUnused /\ WalInit

NextWallet ==
  \/ ConnectBegins
  \/ NetworkTestReturns
  \/ BalanceReturns
  \/ Disconnect

SpecWallet == InitWallet /\ [][NextWallet]_vars

NextKeys == ParseKey \/ ParseAgain

SpecKeys == InitKeys /\ [][NextKeys]_vars

NextCollector ==
  \/ Initialize
  \/ StartCollecting
  \/ StopCollecting
  \/ TimerFires
  \/ FetchReturns

SpecCollector == InitCollector /\ [][NextCollector]_vars

SpecStrategy == InitStrategy /\ [][Next]_vars

NextDetect == Detect

SpecDetect == InitDetect /\ [][NextDetect]_vars

NextDetectTwice ==
  \/ Detect
  \/ ClockTicks
  \/ DetectAgain

SpecDetectTwice == InitDetect /\ [][NextDetectTwice]_vars

----------------------------------------------------------------------------
(***************************************************************************)
(* Properties of the detector                                              *)
(***************************************************************************)
ObjIds == 1..Len(objs)

\* C1: the number of in-flight executions never exceeds maxConcurrentTrades,
\* and an opportunity that was evaluated while every slot was taken stays
\* pending.
C1_ConcurrencyCap ==
  /\ activeExecutions <= config.maxConcurrentTrades
  /\ \A i \in ObjIds : objs[i].gate = "concurrency" => objs[i].status = "pending"

C1_Witness ==
  /\ config.maxConcurrentTrades >= 2
  /\ activeExecutions = config.maxConcurrentTrades
  /\ \E i \in ObjIds : objs[i].gate = "concurrency"

\* C2: activeExecutions is never negative and equals the number of
\* executions that have started and not yet ended, whether they ended
\* completed or failed.
C2_SlotAccounting ==
  /\ activeExecutions >= 0
  /\ activeExecutions = Cardinality(running)
  /\ activeExecutions = started - finished
  /\ running = {i \in ObjIds : objs[i].status = "executing"}

C2_Witness ==
  /\ \E i \in ObjIds : objs[i].status = "failed"
  /\ \E i \in ObjIds : objs[i].status = "completed"
  /\ activeExecutions = 1

LegalMove(a, b) ==
  \/ a = b
  \/ a = "pending" /\ b = "executing"
  \/ a = "executing" /\ b \in {"completed", "failed"}

\* the listener calls that announced status s for opportunity id
Announcements(id, s) ==
  {<<i, k>> \in ObjIds \X (1..4) :
     /\ objs[i].id = id
     /\ k <= Len(objs[i].notified[Len(opportunityCallbacks)])
     /\ objs[i].notified[Len(opportunityCallbacks)][k] = s}

\* C3: the status of an opportunity only moves pending -> executing ->
\* completed | failed, never back, and an id enters executing at most once.
C3_Lifecycle ==
  /\ [][\A i \in ObjIds : LegalMove(objs[i].status, objs'[i].status)]_vars
  /\ [](\A i \in ObjIds : Cardinality(Announcements(objs[i].id, "executing")) <= 1)
  /\ [](\A i, j \in ObjIds : objs[i].id = objs[j].id => i = j)

C3_Witness ==
  \E i, j \in ObjIds :
    /\ objs[i].status = "completed"
    /\ objs[j].status = "failed"
    /\ i \notin detectedOpportunities

----------------------------------------------------------------------------
(***************************************************************************)
(* Properties of the executors                                             *)
(***************************************************************************)
Leg1Usable == sourceSwap.present /\ sourceSwap.success
              /\ ~Falsy(sourceSwap.hasOutput, sourceSwap.outputAmount)

Leg2Touched == attempts[2] > 0 \/ submissions[2] > 0 \/ targetSwap.present \/ apc = "leg2"

\* C4: leg 2 is only started after leg 1 returned success with an output
\* amount; when leg 1 failed or has no output amount the execution has
\* ended with success = false and leg 2 was never started.
C4_LegOrder ==
  /\ Leg2Touched => Leg1Usable
  /\ (sourceSwap.present /\ ~Leg1Usable) =>
       (apc = "done" /\ result.present /\ ~result.success /\ ~Leg2Touched)

C4_Witness ==
  /\ apc = "done"
  /\ sourceSwap.success
  /\ confirmed[1]
  /\ sourceSwap.outputAmount = 0
  /\ ~result.success

\* C5: once a confirmation of a leg has returned without error, that leg's
\* transaction is not signed and sent again.
C5_NoResendAfterConfirm ==
  [][\A l \in 1..2 : confirmed[l] => submissions'[l] = submissions[l]]_vars

BackoffIsLinear(l) ==
  \A k \in 1..Len(waits[l]) : waits[l][k] = 1000 * k

ExhaustedRetries(s) ==
  (s.present /\ ~s.success /\ s.error # NoError
     /\ s.error[1] = "Transaction failed after attempts")
    => s.attempts = txConfig.maxRetries + 1

\* C6: a leg makes at most maxRetries retries after its first attempt, waits
\* 1000 ms x k before the k-th retry, reports failure after the last failed
\* attempt, and the execution ends when every call is answered.
C6_BoundedRetry ==
  /\ [](\A l \in 1..2 : /\ attempts[l] <= txConfig.maxRetries + 1
                        /\ Len(waits[l]) <= txConfig.maxRetries
                        /\ Len(waits[l]) = (IF attempts[l] = 0 THEN 0
                                            ELSE IF l = Leg(TxState) /\ stage = "backoff"
                                                 THEN attempts[l] ELSE attempts[l] - 1)
                        /\ BackoffIsLinear(l))
  /\ [](ExhaustedRetries(sourceSwap) /\ ExhaustedRetries(targetSwap))
  /\ <>(apc = "done")

C6_Witness ==
  /\ txConfig.maxRetries = DefaultMaxRetries
  /\ waits[1] = <<1000, 2000, 3000>>
  /\ sourceSwap.present
  /\ ~sourceSwap.success
  /\ sourceSwap.attempts = 4

\* C7: the wait for a confirmation never lasts longer than timeoutMs.
C7_ConfirmationWaitBounded ==
  stage = "confirm" => waited <= txConfig.timeoutMs

C9_FailureRecorded ==
  (apc = "done" /\ ~result.success) =>
    /\ result.error # NoError
    /\ opportunity.status = "failed"
    /\ opportunity.error # ""
    /\ opportunity.notified[Len(opportunity.notified)] = "failed"

\* the part of C9 the executors do implement: a failure is a returned value
C9_FailureReturned ==
  /\ (apc = "done") = result.present
  /\ (apc = "done" /\ ~result.success) => (result.error # NoError /\ ~result.hasProfit)
  /\ \A s \in {sourceSwap, targetSwap} : (s.present /\ ~s.success) => s.error # NoError

----------------------------------------------------------------------------
(***************************************************************************)
(* Properties of the analyzer                                              *)
(***************************************************************************)
Fresh(q) == callTime - q.timestamp <= MaxQuoteAge

\* exit.bid exceeds entry.ask by enough for the threshold and the gas cost
Profitable(entry, exit) ==
  /\ exit.bid > entry.ask
  /\ (exit.bid - entry.ask) * 100 * 100 >= analyzer.minProfitThreshold * entry.ask
  /\ (exit.bid - entry.ask) * analyzer.tradeSizeUsd * 100 > GasCostCents * entry.ask

TwoQuotes == detected.returned /\ Len(marketData[1].quotes) = 2

SingleBuy(A, B) ==
  /\ Len(detected.list) = 1
  /\ detected.list[1].direction = "buy"
  /\ detected.list[1].sourceDex = A.dex
  /\ detected.list[1].targetDex = B.dex

ListedAt(dex) ==
  CHOOSE k \in 1..Len(marketData[1].quotes) : marketData[1].quotes[k].dex = dex

\* C11: for a venue pair (i, j), i listed before j, the opportunity emitted
\* because quotes[i].bid > quotes[j].ask (entry at j, exit at i) has
\* direction sell, and the one emitted because quotes[j].bid > quotes[i].ask
\* (entry at i, exit at j) has direction buy.
C11_DirectionTellsCases ==
  detected.returned =>
    \A k \in 1..Len(detected.list) :
      LET o == detected.list[k] IN
      /\ ListedAt(o.targetDex) < ListedAt(o.sourceDex) => o.direction = "sell"
      /\ ListedAt(o.sourceDex) < ListedAt(o.targetDex) => o.direction = "buy"

QuoteOf(dex) == marketData[1].quotes[ListedAt(dex)]

Positions == 1..Len(marketData[1].quotes)

\* the opportunities of the returned list that enter at venue a and leave at b
Emitted(a, b) ==
  {k \in 1..Len(detected.list) :
     /\ detected.list[k].sourceDex = marketData[1].quotes[a].dex
     /\ detected.list[k].targetDex = marketData[1].quotes[b].dex}

\* C12: no returned opportunity references a quote older than the 30 s
\* window, whatever the spread, and a profitable pair whose quotes are aged
\* at most exactly 30 s is reported.
C12_OnlyFreshQuotes ==
  detected.returned =>
    /\ \A k \in 1..Len(detected.list) :
         /\ callTime - QuoteOf(detected.list[k].sourceDex).timestamp <= MaxQuoteAge
         /\ callTime - QuoteOf(detected.list[k].targetDex).timestamp <= MaxQuoteAge
    /\ \A a, b \in Positions :
         (/\ a # b
          /\ callTime - marketData[1].quotes[a].timestamp = MaxQuoteAge
          /\ callTime - marketData[1].quotes[b].timestamp <= MaxQuoteAge
          /\ Profitable(marketData[1].quotes[a], marketData[1].quotes[b]))
           => Emitted(a, b) # {}

\* one quote is aged exactly 30 s and reported, in another snapshot a wide
\* spread on a stale quote is not
C12_Witness ==
  /\ detected.returned
  /\ Len(marketData[1].quotes) = 2
  /\ marketData[1].quotes[1].timestamp = callTime - MaxQuoteAge
  /\ marketData[1].quotes[2].timestamp = callTime
  /\ marketData[1].quotes[2].bid = 1010
  /\ marketData[1].quotes[1].ask = 1000
  /\ Len(detected.list) = 1

\* C13: an opportunity entering at a and leaving at b is returned exactly
\* when both quotes are fresh, b.bid > a.ask, the profit percentage reaches
\* the threshold (inclusive) and the estimated profit is positive (strict);
\* it carries profitPercentage = (bid - ask) / ask * 100.
C13_EmittedIff ==
  detected.returned =>
    \A a, b \in Positions :
      a # b =>
        LET A == marketData[1].quotes[a]
            B == marketData[1].quotes[b]
        IN /\ (Emitted(a, b) # {}) = (Fresh(A) /\ Fresh(B) /\ Profitable(A, B))
           /\ Cardinality(Emitted(a, b)) <= 1
           /\ \A k \in Emitted(a, b) :
                /\ detected.list[k].profitPercentage.num = (B.bid - A.ask) * 100
                /\ detected.list[k].profitPercentage.den = A.ask
                /\ detected.list[k].sourcePrice = A.ask
                /\ detected.list[k].targetPrice = B.bid

\* ask 100 and bid 100.5 is exactly 0.5 % and is reported; in the same
\* snapshot ask 100.2 against bid 100.5 is not
C13_Witness ==
  /\ detected.returned
  /\ analyzer.tradeSizeUsd = 1000
  /\ Len(marketData[1].quotes) = 2
  /\ marketData[1].quotes[1].ask = 1000
  /\ marketData[1].quotes[2].bid = 1005
  /\ marketData[1].quotes[2].ask = 1002
  /\ marketData[1].quotes[1].bid = 1005
  /\ Emitted(1, 2) # {}
  /\ Emitted(2, 1) = {}

\* discovery order: venue pair (i, j), then first branch before second
DiscoveryRank(o) ==
  LET s == ListedAt(o.sourceDex)
      g == ListedAt(o.targetDex)
      i == IF s < g THEN s ELSE g
      j == IF s < g THEN g ELSE s
  IN (i * (MaxVenues + 2) + j) * 2 + (IF s < g THEN 0 ELSE 1)

C15_Pure ==
  [][/\ (detected.returned /\ detected'.returned) => detected'.list = detected.list
     /\ marketData' = marketData
     /\ analyzer' = analyzer]_vars

\* every quote of the snapshot has its bid at or below its ask
Uncrossed ==
  \A e \in 1..Len(marketData) : \A k \in 1..Len(marketData[e].quotes) :
    marketData[e].quotes[k].bid <= marketData[e].quotes[k].ask

\* C38: when no quote of the snapshot is crossed, the list returned holds at
\* most one opportunity for two venues and an instrument, whichever of the
\* two is the source.
C38_OneDirection ==
  (detected.returned /\ Uncrossed) =>
    \A k, l \in 1..Len(detected.list) :
      (/\ detected.list[k].pair = detected.list[l].pair
       /\ {detected.list[k].sourceDex, detected.list[k].targetDex}
            = {detected.list[l].sourceDex, detected.list[l].targetDex}) => k = l

\* an uncrossed snapshot whose opportunity comes from the second branch of
\* the comparison: the venue listed later is the source
C38_Witness ==
  /\ detected.returned
  /\ Uncrossed
  /\ Len(detected.list) = 1
  /\ ListedAt(detected.list[1].sourceDex) > ListedAt(detected.list[1].targetDex)
  /\ \E k \in 1..Len(marketData[1].quotes) :
       marketData[1].quotes[k].bid < marketData[1].quotes[k].ask

----------------------------------------------------------------------------
(***************************************************************************)
(* Properties of the registry                                              *)
(***************************************************************************)
Listeners == 1..Len(opportunityCallbacks)

\* the positions of listener n's log of object i that hold status s
CalledWith(i, n, s) ==
  {k \in 1..Len(objs[i].notified[n]) : objs[i].notified[n][k] = s}

\* C16: a delivery of opportunities whose ids the registry already holds
\* creates no second entry for an id, notifies pending no second time,
\* starts no execution of an existing entry and leaves the existing entries
\* as they are.
C16_IngestIdempotent ==
  /\ [][finished' = finished =>
          \A i \in ObjIds : /\ objs'[i] = objs[i]
                            /\ i \in running' => i \in running]_vars
  /\ [](\A i, j \in detectedOpportunities : objs[i].id = objs[j].id => i = j)
  /\ [](\A i \in ObjIds : \A n \in Listeners :
          Cardinality(CalledWith(i, n, "pending")) <= 1)

\* the list was delivered again while its only entry is executing
C16_Witness ==
  /\ redelivered
  /\ Len(objs) = 1
  /\ objs[1].status = "executing"
  /\ started = 1

\* C17: an opportunity with a new id is stored, and every listener is called
\* with it exactly once while it is pending, before any other status; the
\* listener that throws stops neither the other listener nor the rest of
\* the batch.
C17_StoredAndAnnounced ==
  /\ [][\A i \in (Len(objs) + 1)..Len(objs') : i \in detectedOpportunities']_vars
  /\ [](\A i \in ObjIds : \A n \in Listeners :
          /\ objs[i].notified[n] # <<>>
          /\ objs[i].notified[n][1] = "pending"
          /\ Cardinality(CalledWith(i, n, "pending")) = 1
          /\ objs[i].notified[n] = objs[i].notified[1])

\* two opportunities of one detection pass, both announced to the second
\* listener although the first one throws
C17_Witness ==
  /\ Len(objs) = 2
  /\ objs[1].timestamp = objs[2].timestamp
  /\ opportunityCallbacks[1] = "throws"
  /\ objs[1].notified[2] = <<"pending", "executing">>
  /\ objs[2].notified[2] = <<"pending">>
  /\ {1, 2} \subseteq detectedOpportunities

\* what a listener has been called with for an object of the given status
\* when every call came in lifecycle order
LifecycleLog(status) ==
  IF status = "pending" THEN <<"pending">>
  ELSE IF status = "executing" THEN <<"pending", "executing">>
  ELSE <<"pending", "executing", status>>

getOpportunities == {objs[i] : i \in detectedOpportunities}

getOpportunitiesByStatus(status) == {o \in getOpportunities : o.status = status}

Expired(i, t) == t - objs[i].timestamp > OpportunityMaxAge

\* C18: the clean-up removes exactly the entries detected more than the
\* retention window ago, whatever their status, and leaves the younger
\* entries as they are; a removed entry is no longer returned by the
\* getters while its execution goes on.
C18_Expire ==
  /\ [][\A i \in detectedOpportunities :
          i \notin detectedOpportunities' => Expired(i, now')]_vars
  /\ [][(Len(objs') > Len(objs) \/ detectedOpportunities' # detectedOpportunities) =>
          \A i \in detectedOpportunities :
            /\ Expired(i, now') => i \notin detectedOpportunities'
            /\ ~Expired(i, now') => (i \in detectedOpportunities' /\ objs'[i] = objs[i])]_vars
  /\ [](\A i \in ObjIds \ detectedOpportunities :
          /\ objs[i] \notin getOpportunities
          /\ objs[i] \notin getOpportunitiesByStatus(objs[i].status))

\* an entry was removed while its execution is still in flight
C18_Witness ==
  \E i \in running :
    /\ i \notin detectedOpportunities
    /\ objs[i].status = "executing"
    /\ getOpportunitiesByStatus("executing") = {}
    /\ getOpportunities # {}
    /\ activeExecutions = 1

----------------------------------------------------------------------------
(***************************************************************************)
(* Properties of the strategy                                              *)
(***************************************************************************)
\* C19: an opportunity that the strategy refuses because maxDailyTrades
\* admissions were counted on this UTC day does not start executing.
C19_DailyCapRefuses ==
  \A i \in ObjIds : objs[i].verdict = "dailycap" => objs[i].status = "pending"

Blacklisted(o) ==
  \/ o.pair \in strategy.config.blacklistPairs
  \/ o.sourceDex \in strategy.config.blacklistDexes
  \/ o.targetDex \in strategy.config.blacklistDexes

\* C20: an opportunity whose pair or whose source or target venue is
\* blacklisted never leaves pending.
C20_BlacklistRefuses ==
  \A i \in ObjIds : Blacklisted(objs[i]) => objs[i].status = "pending"

----------------------------------------------------------------------------
(***************************************************************************)
(* Properties of admission                                                 *)
(***************************************************************************)
\* the opportunities that have left pending
Admitted == {i \in ObjIds : objs[i].status # "pending"}

\* C21: any two admissions are at least cooldownMs apart, and an
\* opportunity evaluated inside the cooldown period stays pending, so a
\* batch handled within the cooldown period has at most one admission.
C21_CooldownSpacing ==
  /\ \A i, j \in Admitted :
       i < j => objs[j].executionTimestamp - objs[i].executionTimestamp >= config.cooldownMs
  /\ \A i \in ObjIds : objs[i].gate = "cooldown" => objs[i].status = "pending"

C21_Witness ==
  /\ config.maxConcurrentTrades >= 2
  /\ \E i, j \in Admitted :
       /\ i < j
       /\ objs[j].executionTimestamp - objs[i].executionTimestamp = config.cooldownMs
       /\ \E k \in ObjIds : /\ objs[k].gate = "cooldown"
                            /\ objs[k].timestamp = objs[i].timestamp
\* the opportunities admitted to execution since the daily counter was reset
AdmittedSinceReset == {i \in Admitted : i >= strategy.countedFrom}

\* an opportunity that a gate of evaluateForExecution rejected
RejectedByGate(i) == objs[i].gate \in {"stopped", "concurrency", "cooldown", "profit"}

\* C22: the daily trade counter equals the number of opportunities admitted
\* to execution since the last daily reset, and an opportunity that a gate
\* rejected has not been counted and has not moved lastTradeTime.
C22_CountersFollowAdmission ==
  /\ strategy.registered =>
       strategy.dailyTradeCount = Cardinality(AdmittedSinceReset)
  /\ \A i \in ObjIds : RejectedByGate(i) => objs[i].verdict # "passed"
\* C23: a handler pass of the running detector evaluates again every
\* opportunity of the registry that a gate rejected and that is still
\* pending.
C23_ReevaluatedNextCycle ==
  [][HandleOpportunities =>
       \A i \in detectedOpportunities \cap detectedOpportunities' :
         (objs[i].status = "pending" /\ RejectedByGate(i))
           => objs'[i].evaluations > objs[i].evaluations]_vars
\* a priority list is configured and the opportunity does not match it
OffPriority(o) ==
  \/ strategy.config.prioritizePairs # {} /\ o.pair \notin strategy.config.prioritizePairs
  \/ /\ strategy.config.prioritizeDexes # {}
     /\ o.sourceDex \notin strategy.config.prioritizeDexes
     /\ o.targetDex \notin strategy.config.prioritizeDexes

\* C24: an opportunity that does not match a configured priority list is
\* admitted only with profitPercentage >= minProfitThreshold * 1.5, and one
\* that matches is not filtered out when it reaches the base threshold.
C24_PriorityThreshold ==
  /\ \A i \in Admitted :
       OffPriority(objs[i]) => ~BelowPriorityProfit(objs[i], strategy.config)
  /\ \A i \in ObjIds :
       (/\ strategy.registered
        /\ ~OffPriority(objs[i])
        /\ ~Blacklisted(objs[i])
        /\ objs[i].profitPercentage >= strategy.config.minProfitThreshold)
         => objs[i].verdict # "filtered"

----------------------------------------------------------------------------
(***************************************************************************)
(* Properties of the collector                                             *)
(***************************************************************************)
Snapshots == {published[n] : n \in 1..Len(published)}

\* the quotes of an array
QuotesOfArray(arr) == {arr[k] : k \in 1..Len(arr)}

\* the quotes a snapshot held when it was handed out
QuotesIn(s) == UNION {QuotesOfArray(s.content[p]) : p \in s.keys}

\* C25: no published snapshot holds a quote of a collectData call that was
\* still in progress when the snapshot was published.
C25_NoPartialCycle ==
  \A s \in Snapshots : \A q \in QuotesIn(s) : q.cycle \notin s.unfinished

\* C26: every quote of the snapshot published at the end of a collectData
\* call was fetched by that call.
C26_Supersedes ==
  \A s \in Snapshots : \A q \in QuotesIn(s) : q.cycle = s.cycle

\* what the holder of a snapshot reads from it now: the Map it was handed
\* has the arrays of the table
View(s) == [p \in s.keys |-> priceData[p]]

\* C27: the content of a snapshot that was handed out does not change when
\* later collectData calls update the table.
C27_ImmutableCopy ==
  \A s \in Snapshots : View(s) = [p \in s.keys |-> s.content[p]]
\* the snapshot holds a quote of the (venue, instrument) of iteration pos
Stored(s, pos) ==
  \E q \in QuotesIn(s) : q.dex = providers[ProviderAt(pos)].name /\ q.pair = PairAt(pos)

\* C28: a fetch that fails does not end the collectData call: the call goes
\* through every (venue, instrument), the quotes it did get are in the
\* table, and it publishes its snapshot before it returns.
C28_FailureSkipped ==
  /\ \A c \in ended : \E s \in Snapshots : s.cycle = c
  /\ \A s \in Snapshots :
       /\ Len(s.outcomes) = Iterations
       /\ \A pos \in 1..Iterations : s.outcomes[pos] = "quote" => Stored(s, pos)

C28_Witness ==
  \E s \in Snapshots :
    /\ providers[1].live
    /\ s.outcomes = <<"null", "quote">>
    /\ Stored(s, 2)
    /\ s.cycle \in ended

\* every index of a list of callbacks, in order
AllOf(callbacks) == [n \in 1..Len(callbacks) |-> n]

\* C29: every subscriber of the collector and every listener of the monitor
\* is called with each snapshot although one of them throws, and the
\* publication leaves the timer and the other collectData calls as they are.
C29_SubscriberIsolated ==
  /\ [](\A s \in Snapshots : /\ s.receivers = AllOf(updateCallbacks)
                              /\ s.forwarded = AllOf(monitorCallbacks))
  /\ [][Len(published') > Len(published) =>
          /\ pollingInterval' = pollingInterval
          /\ \A c \in DOMAIN cycles' : c \in DOMAIN cycles /\ cycles'[c] = cycles[c]]_vars

C29_Witness ==
  /\ updateCallbacks[1] = "throws"
  /\ monitorCallbacks[1] = "throws"
  /\ Len(published) >= 2
  /\ published[1].cycle # published[2].cycle
  /\ published[2].receivers = AllOf(updateCallbacks)
  /\ published[2].forwarded = AllOf(monitorCallbacks)
  /\ pollingInterval
  /\ published[2].cycle \notin published[1].unfinished
\* the venues whose initialize() succeeded
LiveProviders == {n \in 1..Len(providers) : providers[n].live}

\* C30: initialize() returns true exactly when a configured venue
\* initialized successfully, and a collectData call fetches from live
\* venues only.
C30_InitializeIffLive ==
  /\ initResult # "none" => (initResult = "true" <=> LiveProviders # {})
  /\ \A c \in DOMAIN cycles : \A pos \in 1..Len(cycles[c].outcomes) :
       ProviderAt(pos) \in LiveProviders
\* C31: at most one interval timer is active and it is the one
\* this.pollingInterval holds; start() before a successful initialize() is
\* refused and starts nothing; start() while running sets no second timer;
\* while the collector stays stopped no timer exists and no collectData call
\* begins.
C31_OneTimer ==
  /\ [](activeTimers <= 1 /\ (pollingInterval <=> activeTimers = 1))
  /\ [](~isInitialized => activeTimers = 0 /\ nextCycle = 0
                            /\ lastStart \in {"none", "refused"})
  /\ [][pollingInterval /\ pollingInterval' => activeTimers' = activeTimers]_vars
  /\ [][~pollingInterval /\ ~pollingInterval' =>
          activeTimers' = activeTimers /\ nextCycle' = nextCycle]_vars

C31_Witness ==
  /\ lastStart = "running"
  /\ activeTimers = 1
  /\ nextCycle >= 2
  /\ ended # {}

\* the quotes the table pd lists for venue d under instrument p
VenueQuotes(pd, p, d) == {q \in QuotesOfArray(pd[p]) : q.dex = d}

Venues == {ProviderOrder[k] : k \in 1..Len(ProviderOrder)}

C36_ExecutionsEnd ==
  /\ \A i \in 1..MaxObjs :
       (i \in ObjIds /\ objs[i].status = "executing")
         ~> (i \in ObjIds /\ objs[i].status \in {"completed", "failed"})
  /\ \A n \in 0..MaxObjs : <>[](started = n) => <>[](activeExecutions = 0)

\* both slots were taken, the last execution began at the last tick of
\* delivery, and every execution has ended in one way or the other
C36_Witness ==
  /\ started >= 2
  /\ finished = started
  /\ activeExecutions = 0
  /\ \E i \in ObjIds : objs[i].status = "completed" /\ objs[i].executionTimestamp = MaxTime
  /\ \E i \in ObjIds : objs[i].status = "failed"

----------------------------------------------------------------------------
(***************************************************************************)
(* Properties of the monitor                                               *)
(***************************************************************************)
\* the object was made from the opportunity o of the detection
MadeFrom(obj, o) ==
  /\ obj.sourceDex = o.sourceDex
  /\ obj.targetDex = o.targetDex
  /\ obj.pair = o.pair

\* C39: the list the monitor hands on is the head of the detection's list,
\* of length maxOpportunities or of the detection's length if that is
\* smaller; it is in falling order of profitPercentage and no opportunity
\* left out has a higher one; every object the poll cycle registers is made
\* from an opportunity of the list handed on, and none from one left out.
C39_TopOpportunities ==
  /\ [](/\ Len(opportunities) <= maxOpportunities
        /\ Len(opportunities) <= Len(detected.list)
        /\ Len(opportunities) < maxOpportunities => Len(opportunities) = Len(detected.list)
        /\ opportunities = SubSeq(detected.list, 1, Len(opportunities))
        /\ \A k \in 1..Len(opportunities) : \A l \in (k + 1)..Len(detected.list) :
             FracGeq(detected.list[k].profitPercentage, detected.list[l].profitPercentage))
  /\ [][\A i \in (Len(objs) + 1)..Len(objs') :
          /\ \E k \in 1..Len(opportunities') : MadeFrom(objs'[i], opportunities'[k])
          /\ \A l \in (Len(opportunities') + 1)..Len(detected'.list) :
               ~MadeFrom(objs'[i], detected'.list[l])]_vars

\* the detection found two opportunities of different profit, one was handed
\* on and has been executed, the other has no object
C39_Witness ==
  /\ maxOpportunities = 1
  /\ Len(detected.list) = 2
  /\ FracGt(detected.list[1].profitPercentage, detected.list[2].profitPercentage)
  /\ Len(opportunities) = 1
  /\ Len(objs) = 1
  /\ MadeFrom(objs[1], detected.list[1])
  /\ objs[1].status = "completed"

----------------------------------------------------------------------------
(***************************************************************************)
(* Properties of the wallet connection                                     *)
(***************************************************************************)
\* C40: while no connect() call is in progress, if the last connect() call
\* returned success = false then isConnected() is false and
\* getWalletAddress() is null, and if isConnected() is true then
\* getConnectionError() is null.
C40_FailedConnectDisconnects ==
  connecting = "idle" =>
    /\ lastConnect = "failure" => (~isConnected /\ getWalletAddress = "null")
    /\ isConnected => getConnectionError = "null"

----------------------------------------------------------------------------
(***************************************************************************)
(* Properties of stopping                                                  *)
(***************************************************************************)
TerminalStatuses == {"completed", "failed"}

\* the timer of execution i has fired
TimerFired(i) == now >= objs[i].executionTimestamp + ExecutionDelayMs

\* C32: while the detector is stopped no opportunity is created and none
\* leaves pending; the stop() call itself changes nothing but isRunning, so
\* a second call changes nothing; an execution in flight can still end
\* while the detector is stopped, and when it ends it notifies every
\* listener and releases its slot.
C32_StopOnlyPreventsAdmission ==
  /\ [][~isRunning' =>
          /\ Len(objs') = Len(objs)
          /\ \A i \in ObjIds : objs[i].status = "pending" => objs'[i].status = "pending"]_vars
  /\ [][isRunning /\ ~isRunning' =>
          UNCHANGED <<objs, detectedOpportunities, lastExecutionTime, activeExecutions,
                      running, started, finished>>]_vars
  /\ [](\A i \in running : TimerFired(i) => ENABLED ExecutionEnds(i, "completed"))
  /\ [][\A i \in running :
          (~isRunning /\ objs'[i].status \in TerminalStatuses) =>
             /\ activeExecutions' = activeExecutions - 1
             /\ \A n \in Listeners :
                  objs'[i].notified[n] = Append(objs[i].notified[n], objs'[i].status)]_vars

C32_Witness ==
  /\ ~isRunning
  /\ \E i \in running : TimerFired(i)
  /\ \E i \in ObjIds : /\ objs[i].status \in TerminalStatuses
                       /\ objs[i].executionTimestamp + ExecutionDelayMs = now

----------------------------------------------------------------------------
(***************************************************************************)
(* Properties of the reported profit                                       *)
(***************************************************************************)
\* C33: a successful result reports profit = output of leg 2 - input of
\* leg 1 and profitPercentage = profit / input of leg 1 * 100, and a result
\* carries a profit only when both legs succeeded.
C33_ReportedProfit ==
  result.present =>
    /\ result.success =>
         /\ result.hasProfit
         /\ result.profit = result.targetSwap.outputAmount - result.sourceSwap.inputAmount
         /\ result.profitPercentage.num = result.profit * 100
         /\ result.profitPercentage.den = result.sourceSwap.inputAmount
         /\ result.sourceSwap.inputAmount # 0
    /\ result.hasProfit =>
         /\ result.success
         /\ result.sourceSwap.success
         /\ result.targetSwap.success

C33_Witness ==
  /\ result.present
  /\ result.success
  /\ result.profit # 0
  /\ result.targetSwap.inputAmount # result.sourceSwap.inputAmount

----------------------------------------------------------------------------
(***************************************************************************)
(* Properties of parseSecretKey                                            *)
(***************************************************************************)
\* the bs58 texts of the keys of KeyLength bytes
EncodedKeys == {bs58encode(b) : b \in StringsOfLen(0..(ByteBase - 1), KeyLength)}

\* a JSON array of KeyLength elements, or 2 * KeyLength hex digits with or
\* without the 0x prefix
IsKeyArray(str) == IsJsonArray(str) /\ (Len(str) - 1) \div 2 = KeyLength
IsKeyHex(str) ==
  \E h \in StringsOfLen(RangeOf(HexDigits), 2 * KeyLength) :
    str = h \/ str = <<"0", "x">> \o h

\* C34: parseSecretKey returns its trimmed input unchanged when that is a
\* valid bs58 key, returns null when the trimmed input is neither a valid
\* bs58 key nor a key-length JSON array nor a key-length hex string, and
\* returns its own non-null result unchanged when applied to it.
C34_ParseSecretKey ==
  /\ parsed.returned =>
       /\ isValidSecretKeyFormat(trim(secretKeyInput))
            => parsed.value = Key(trim(secretKeyInput))
       /\ (trim(secretKeyInput) \in EncodedKeys)
            <=> isValidSecretKeyFormat(trim(secretKeyInput))
       /\ (/\ ~isValidSecretKeyFormat(trim(secretKeyInput))
           /\ ~IsKeyArray(trim(secretKeyInput))
           /\ ~IsKeyHex(trim(secretKeyInput))) => parsed.value.isNull
       /\ ~parsed.value.isNull => isValidSecretKeyFormat(parsed.value.key)
  /\ reparsed.returned => reparsed.value = parsed.value

C34_Witness ==
  /\ reparsed.returned
  /\ IsKeyHex(trim(secretKeyInput))
  /\ secretKeyInput # trim(secretKeyInput)
  /\ Head(parsed.value.key) = Bs58Alphabet[1]
  /\ reparsed.value = parsed.value

====
